---------------------------- MODULE Spec2Model ----------------------------
(***************************************************************************)
(* Module-file generation of spack (lib/spack/spack/modules.py): the       *)
(* dependency projector, the blacklist test, the write/remove life cycle   *)
(* of a module file and the hierarchical (Lmod) placement engine.          *)
(***************************************************************************)
EXTENDS Integers, Sequences, FiniteSets, TLC

VARIABLES
    deps,           \* the concretized spec DAG: node -> set of direct dependencies
    compiler,       \* node -> the compiler the node was built with (spec.compiler)
    CONFIGURATION,  \* the process-wide 'modules' configuration
    depCall,        \* the last call of dependencies() and what it returned
    gen,            \* the last LmodModule instance constructed, with its derived values
    loaded,         \* Lmod session: the set of nodes whose module has been loaded
    MODULEPATH,     \* Lmod session: the module search path, most recent first
    lmodEnv,        \* Lmod session: the LMOD_<TOKEN>_NAME / _VERSION variables
    files,          \* module tree: path of a module file -> its content
    dirs,           \* module tree: the directories that exist
    last            \* the last write()/remove() call and what it did

vars == <<deps, compiler, CONFIGURATION, depCall, gen, loaded, MODULEPATH,
          lmodEnv, files, dirs, last>>

-----------------------------------------------------------------------------
(* Small helpers on sequences and sets.                                    *)

Range(s) == {s[i] : i \in DOMAIN s}

NoDuplicates(s) == \A i, j \in DOMAIN s : i # j => s[i] # s[j]

IndexOf(s, x) == CHOOSE i \in DOMAIN s : s[i] = x

\* The sequences that list every element of the finite set S exactly once.
Orderings(S) ==
    {s \in [1..Cardinality(S) -> S] : \A i, j \in 1..Cardinality(S) : i # j => s[i] # s[j]}

\* The elements of a finite set of integers, ascending.
RECURSIVE Ascending(_)
Ascending(S) ==
    IF S = {} THEN <<>>
    ELSE LET m == CHOOSE x \in S : \A y \in S : x <= y
         IN  <<m>> \o Ascending(S \ {m})

RECURSIVE Flatten(_)
Flatten(ss) == IF ss = <<>> THEN <<>> ELSE Head(ss) \o Flatten(Tail(ss))

None == "None"

-----------------------------------------------------------------------------
(* The dependency projector.                                               *)
(*                                                                         *)
(* A spec is a node of the DAG; Spec.__cmp__ orders the nodes of one DAG   *)
(* by package name, and the node numbers are given in name order, so the   *)
(* order of the numbers is the order of the specs.                         *)

MaxNodes == 4

DagNodes == 1..MaxNodes

\* The nodes reachable from n by one or more dependency edges.
RECURSIVE ReachVia(_, _, _)
ReachVia(d, frontier, seen) ==
    IF frontier = {} THEN seen
    ELSE LET next == (UNION {d[x] : x \in frontier}) \ seen
         IN  ReachVia(d, next, seen \cup next)

Reachable(d, n) == ReachVia(d, d[n], d[n])

IsDag(d) == \A n \in DOMAIN d : n \notin Reachable(d, n)

\* spec.traverse(order='post', depth=True, cover='nodes', root=False): a
\* depth-first walk that marks a node visited when it first meets it, walks its
\* children in name order one level deeper, and yields (depth, node) after the
\* children; the root (depth 0) is not yielded.  st = [visited, out].
RECURSIVE Traverse(_, _, _, _), TraverseChildren(_, _, _, _)
Traverse(d, n, depth, st) ==
    IF n \in st.visited THEN st
    ELSE LET below == TraverseChildren(d, Ascending(d[n]), depth + 1,
                                       [visited |-> st.visited \cup {n}, out |-> st.out])
         IN  [visited |-> below.visited,
              out     |-> IF depth > 0 THEN Append(below.out, <<depth, n>>)
                          ELSE below.out]
TraverseChildren(d, children, depth, st) ==
    IF children = <<>> THEN st
    ELSE TraverseChildren(d, Tail(children), depth, Traverse(d, Head(children), depth, st))

\* Python's order on the (depth, spec) tuples.
TupleLess(a, b) == a[1] < b[1] \/ (a[1] = b[1] /\ a[2] < b[2])

\* sorted(l, reverse=True): insertion into a descending sequence.
RECURSIVE InsertDescending(_, _)
InsertDescending(x, s) ==
    IF s = <<>> THEN <<x>>
    ELSE IF TupleLess(Head(s), x) THEN <<x>> \o s
    ELSE <<Head(s)>> \o InsertDescending(x, Tail(s))

RECURSIVE SortedReverse(_)
SortedReverse(l) ==
    IF l = <<>> THEN <<>> ELSE InsertDescending(l[Len(l)], SortedReverse(SubSeq(l, 1, Len(l) - 1)))

\* [xx for ii, xx in l if not (xx in seen or seen_add(xx))]
RECURSIVE UniqueSpecs(_, _)
UniqueSpecs(l, seen) ==
    IF l = <<>> THEN <<>>
    ELSE LET xx == Head(l)[2]
         IN  IF xx \in seen THEN UniqueSpecs(Tail(l), seen)
             ELSE <<xx>> \o UniqueSpecs(Tail(l), seen \cup {xx})

DependenciesAll(d, spec) ==
    UniqueSpecs(SortedReverse(Traverse(d, spec, 0, [visited |-> {}, out |-> <<>>]).out), {})

Requests == {"none", "direct", "all"}

\* dependencies(spec, request): the lists it may return.  'direct' lists the
\* values of the spec.dependencies dict in the dict's own order, which the code
\* does not fix; a request outside Requests raises (the empty set of results).
DependenciesResults(d, spec, request) ==
    IF request \notin Requests THEN {}
    ELSE IF request = "none" THEN {<<>>}
    ELSE IF request = "direct" THEN Orderings(d[spec])
    ELSE {DependenciesAll(d, spec)}

-----------------------------------------------------------------------------
(* The installed packages the generators are run on.  Everything modules.py *)
(* reads from a spec or its package is a column of this table; the numbers  *)
(* follow the names' order.                                                 *)

PkgName    == <<"gcc", "libjpeg-turbo", "llvm", "openblas", "openmpi", "pkg">>
PkgVersion == <<"5.4", "1.5", "3.8", "0.2", "1.10", "1.0">>
\* spec.dag_hash(): the full content hash.
PkgHash    == <<"gcc7mrz2qkd", "jpgx4f5w0ab", "llv3n8s6ptu", "obl9c1d2e7v",
                "ompk5h8j3yz", "pkgq6w4r1mn">>
\* package.provides(x): the virtual packages each recipe declares.
PkgVirtuals == <<{}, {"jpeg"}, {}, {"blas", "lapack"}, {"mpi"}, {}>>

Pkgs == DOMAIN PkgName

\* spack.compilers.supported_compilers(): the names of the compiler families.
SupportedCompilers == {"gcc", "intel", "clang"}

\* The compilers a node may have been built with.
Compilers == {[name |-> "gcc", version |-> "8.0"], [name |-> "intel", version |-> "16.0"]}

\* str() of a CompilerSpec.
CompilerStr(c) == c.name \o "@" \o c.version

Architecture == "linux-x86_64"

\* What a spec node shows of itself where a Spec object is held.
SpecOf(n) == [name |-> PkgName[n], version |-> PkgVersion[n]]

NodeOfName(name) == CHOOSE n \in Pkgs : PkgName[n] = name

Gcc      == NodeOfName("gcc")
Jpeg     == NodeOfName("libjpeg-turbo")
Llvm     == NodeOfName("llvm")
Openblas == NodeOfName("openblas")
Openmpi  == NodeOfName("openmpi")
Pkg      == NodeOfName("pkg")

\* The nodes of the DAG rooted at n in the order spec.traverse() yields them
\* (pre-order, root first, children in name order, each node once).
RECURSIVE PreOrder(_, _, _), PreOrderChildren(_, _, _)
PreOrder(d, n, st) ==
    IF n \in st.visited THEN st
    ELSE PreOrderChildren(d, Ascending(d[n]),
                          [visited |-> st.visited \cup {n}, out |-> Append(st.out, n)])
PreOrderChildren(d, children, st) ==
    IF children = <<>> THEN st
    ELSE PreOrderChildren(d, Tail(children), PreOrder(d, Head(children), st))

TraverseNodes(d, n) == PreOrder(d, n, [visited |-> {}, out |-> <<>>]).out

\* node.satisfies(x) for a bare name x: the node is the package x or provides
\* the virtual package x.
SatisfiesName(m, x) == PkgName[m] = x \/ x \in PkgVirtuals[m]

\* x in spec: some node of the DAG rooted at n satisfies x.
SpecContains(d, n, x) == \E m \in Range(TraverseNodes(d, n)) : SatisfiesName(m, x)

\* spec[x]: the first node of the traversal that satisfies x.
SpecGetItem(d, n, x) ==
    LET t == TraverseNodes(d, n)
        i == CHOOSE i \in DOMAIN t :
                 SatisfiesName(t[i], x) /\ \A j \in 1..(i - 1) : ~SatisfiesName(t[j], x)
    IN  t[i]

\* spec.satisfies(pattern) for the patterns of the configuration: a package
\* name, or '%' and a compiler.
Patterns == {"pkg", "openmpi", "%gcc@8.0", "%intel@16.0"}

Satisfies(n, pattern) ==
    \/ pattern = PkgName[n]
    \/ pattern = "%" \o CompilerStr(compiler[n])

-----------------------------------------------------------------------------
(* Dictionaries of the configuration are functions on their keys.          *)

Get(dict, key, default) == IF key \in DOMAIN dict THEN dict[key] ELSE default

EmptyDict == [k \in {} |-> None]

-----------------------------------------------------------------------------
(* LmodModule: the hierarchical placement engine.  A path is the sequence  *)
(* of its components, and join_path is concatenation.  The methods take    *)
(* the instance, self, as the code does.                                   *)

\* LmodModule.path under spack.share_path.
LmodPath == <<"lmod">>

LmodConfiguration == Get(CONFIGURATION, "lmod", EmptyDict)

\* spack.spec.CompilerSpec(str(self.spec)): the parse keeps the leading name
\* and version of the spec's string.
CompilerSpecOfSpec(n) == [name |-> PkgName[n], version |-> PkgVersion[n]]

\* A requires whose 'compiler' is what the package itself provides.
LmodRequiresOwnIdentity(n, tokens) ==
    [x \in {"compiler"} |->
        IF PkgName[n] \in SupportedCompilers \cup {"llvm"}
        THEN CompilerSpecOfSpec(n) ELSE compiler[n]]

\* self.requires, for the hierarchy tokens given
LmodRequires(n, tokens) ==
    LET nodes    == TraverseNodes(deps, n)
        depended == {x \in Range(tokens) :
                        /\ \E m \in Range(nodes) : SatisfiesName(m, x)
                        /\ x \notin PkgVirtuals[n]}
    IN  [x \in {"compiler"} \cup depended |->
            IF x \in depended THEN SpecOf(SpecGetItem(deps, n, x)) ELSE compiler[n]]

\* self.provides, for the hierarchy tokens given
LmodProvides(n, tokens) ==
    LET asCompiler == PkgName[n] \in SupportedCompilers \/ PkgName[n] = "llvm"
        services   == {x \in Range(tokens) : x \in PkgVirtuals[n]}
    IN  [x \in (IF asCompiler THEN {"compiler"} ELSE {}) \cup services |->
            IF x \in services THEN SpecOf(SpecGetItem(deps, n, x))
            ELSE IF PkgName[n] = "llvm"
                 THEN [CompilerSpecOfSpec(n) EXCEPT !.name = "clang"]
                 ELSE CompilerSpecOfSpec(n)]

\* LmodModule.__init__: the instance for node n.
LmodModule(n) ==
    LET tokens == Get(LmodConfiguration, "hierarchical_scheme", <<>>) \o <<"mpi", "compiler">>
    IN  [spec             |-> n,
         modules_root     |-> LmodPath \o <<Architecture>>,
         hierarchy_tokens |-> tokens,
         core_compilers   |-> Get(LmodConfiguration, "core_compilers", <<>>),
         requires         |-> LmodRequires(n, tokens),
         provides         |-> LmodProvides(n, tokens)]

\* itertools.combinations(tokens, k), in the order it yields them.
RECURSIVE Combinations(_, _)
Combinations(tokens, k) ==
    IF k = 0 THEN << <<>> >>
    ELSE IF Len(tokens) < k THEN <<>>
    ELSE LET withHead == Combinations(Tail(tokens), k - 1)
         IN  [i \in 1..Len(withHead) |-> <<Head(tokens)>> \o withHead[i]]
             \o Combinations(Tail(tokens), k)

\* _hierarchy_token_combinations
HierarchyTokenCombinations(self) ==
    LET all == Flatten([k \in 1..(Len(self.hierarchy_tokens) + 1) |->
                            Combinations(self.hierarchy_tokens, k - 1)])
    IN  SelectSeq(all, LAMBDA item : "compiler" \in Range(item))

\* _hierarchy_to_be_provided
HierarchyToBeProvided(self) ==
    LET provided == DOMAIN self.provides
    IN  SelectSeq(HierarchyTokenCombinations(self),
                  LAMBDA item : \E x \in Range(item) : x \in provided)

\* A token_to_path that knows no core compilers.
TokenToPathNeverCore(self, name, value) == <<value.name, value.version>>

\* token_to_path
TokenToPath(self, name, value) ==
    IF name = "compiler" /\ CompilerStr(value) \in Range(self.core_compilers)
    THEN <<"Core">>
    ELSE <<value.name, value.version>>

\* spec.dag_hash(): a digest of the node and of what it was built on, as long
\* for every spec.  The catalog has the digest of each package built on
\* nothing; built on other packages, the digest starts as the catalog digest
\* of the first of them, keeps the middle of its own, and ends as the digest
\* of that dependency, with what it was built on in turn, begins.
RECURSIVE DagHash(_)
DagHash(n) ==
    IF deps[n] = {} THEN PkgHash[n]
    ELSE LET first == CHOOSE d \in deps[n] : \A e \in deps[n] : d <= e
         IN  SubSeq(PkgHash[first], 1, 3) \o SubSeq(PkgHash[n], 4, Len(PkgHash[n]) - 3)
             \o SubSeq(DagHash(first), 1, 3)

\* spec.dag_hash(length=6)
DagHash6(n) == SubSeq(DagHash(n), 1, 6)

\* LmodModule.use_name: 'name/version-hash6', as path components.
LmodUseName(self) ==
    LET p == TokenToPath(self, "", SpecOf(self.spec))
    IN  <<p[1], p[2] \o "-" \o DagHash6(self.spec)>>

\* The tokens of the hierarchy that are keys of dict, in hierarchy order.
TokensIn(self, dict) ==
    LET keys == DOMAIN dict
    IN  SelectSeq(self.hierarchy_tokens, LAMBDA x : x \in keys)

\* A file_name built from every token the module requires or provides.
LmodFileNameFromAvailable(self) ==
    LET keys    == DOMAIN self.requires \cup DOMAIN self.provides
        present == SelectSeq(self.hierarchy_tokens, LAMBDA x : x \in keys)
        parts   == [i \in 1..Len(present) |->
                       TokenToPath(self, present[i],
                                   IF present[i] \in DOMAIN self.provides
                                   THEN self.provides[present[i]]
                                   ELSE self.requires[present[i]])]
        useName == LmodUseName(self)
    IN  self.modules_root \o Flatten(parts) \o <<useName[1], useName[2] \o ".lua">>

\* LmodModule.file_name
LmodFileName(self) ==
    LET present       == TokensIn(self, self.requires)
        parts         == [i \in 1..Len(present) |->
                             TokenToPath(self, present[i], self.requires[present[i]])]
        hierarchyName == Flatten(parts)
        useName       == LmodUseName(self)
    IN  self.modules_root \o hierarchyName \o <<useName[1], useName[2] \o ".lua">>

\* available = requires updated with provides
Available(self) ==
    [x \in DOMAIN self.requires \cup DOMAIN self.provides |->
        IF x \in DOMAIN self.provides THEN self.provides[x] ELSE self.requires[x]]

\* missing: the hierarchy tokens the module neither requires nor provides.
Missing(self) ==
    LET keys == DOMAIN self.requires \cup DOMAIN self.provides
    IN  SelectSeq(self.hierarchy_tokens, LAMBDA x : x \notin keys)

\* conditional_modulepath_modifications(item): the block
\*   if <x>_name and ... then prepend_path("MODULEPATH", pathJoin(root, ...)) end
\* 'needed' are the probe variables of the condition; each part of the path is
\* a probe (its name and version variables) or a literal.
ConditionalModulepathModifications(self, missing, available, item) ==
    LET absent == Range(missing)
    IN  [needed |-> SelectSeq(self.hierarchy_tokens, LAMBDA x : x \in absent),
         root   |-> self.modules_root,
         item   |-> item,
         parts  |-> [i \in 1..Len(item) |->
                        IF item[i] \in absent
                        THEN [probe |-> item[i], literal |-> <<>>]
                        ELSE [probe |-> None,
                              literal |-> TokenToPath(self, item[i], available[item[i]])]]]

\* Conditional blocks for every combination to be provided.
ConditionalsOfEveryCombination(self, missing) == HierarchyToBeProvided(self)

\* The conditional blocks modulepath_modifications emits.
Conditionals(self, missing) ==
    LET absent == Range(missing)
    IN  SelectSeq(HierarchyToBeProvided(self),
                  LAMBDA item : \E t \in Range(item) : t \in absent)

\* A test that takes every module to sit below the compiler level.
BelowCompilerAlways(self) == TRUE

\* if 'compiler' not in self.provides
BelowCompiler(self) == "compiler" \notin DOMAIN self.provides

\* modulepath_modifications: the unconditional prepend, the probe variables
\* (local <x>_name, <x>_version = os.getenv(LMOD_<X>_NAME / _VERSION)), the
\* conditional blocks and the LMOD_<X>_NAME / _VERSION settings, which the code
\* emits in the order of the provides dict (a set of lines here).
ModulepathModifications(self) ==
    LET available      == Available(self)
        present        == TokensIn(self, available)
        availableParts == [i \in 1..Len(present) |->
                              TokenToPath(self, present[i], available[present[i]])]
        missing        == Missing(self)
        below          == BelowCompiler(self)
        conditionals   == Conditionals(self, missing)
    IN  [prepend      |-> self.modules_root \o Flatten(availableParts),
         probes       |-> IF below THEN missing ELSE <<>>,
         conditionals |-> IF below
                          THEN [i \in 1..Len(conditionals) |->
                                   ConditionalModulepathModifications(
                                       self, missing, available, conditionals[i])]
                          ELSE <<>>,
         settings     |-> IF below THEN self.provides ELSE EmptyDict]

\* A header with the MODULEPATH block in it whatever the module provides.
LmodHeaderAlwaysModulepath(self) ==
    [families   |-> DOMAIN self.provides,
     modulepath |-> <<ModulepathModifications(self)>>]

\* The part of LmodModule.header that depends on the hierarchy: the family
\* directives and, when the module provides a service, the MODULEPATH block.
LmodHeader(self) ==
    [families   |-> DOMAIN self.provides,
     modulepath |-> IF DOMAIN self.provides # {}
                    THEN <<ModulepathModifications(self)>> ELSE <<>>]

\* The directory of the module tree a module file is looked up from: the
\* file name without the use name.
ModuleDirectory(fileName) == SubSeq(fileName, 1, Len(fileName) - 2)

\* An LmodModule instance together with the values derived from it.
Generated(self) ==
    [spec             |-> self.spec,
     hierarchy_tokens |-> self.hierarchy_tokens,
     core_compilers   |-> self.core_compilers,
     requires         |-> self.requires,
     provides         |-> self.provides,
     use_name         |-> LmodUseName(self),
     file_name        |-> LmodFileName(self),
     header           |-> LmodHeader(self)]

-----------------------------------------------------------------------------
(* EnvModule: what the three generators share.                             *)

Formats == {"dotkit", "tcl", "lmod"}

\* Dotkit.path, TclModule.path and LmodModule.path under spack.share_path.
FormatPath(format) ==
    IF format = "dotkit" THEN <<"dotkit">>
    ELSE IF format = "tcl" THEN <<"modules">>
    ELSE LmodPath

\* blacklisted without the whitelist's precedence.
BlacklistedIgnoringWhitelist(format, n) ==
    LET configuration     == Get(CONFIGURATION, format, EmptyDict)
        blacklist_matches == SelectSeq(Get(configuration, "blacklist", <<>>),
                                       LAMBDA x : Satisfies(n, x))
    IN  blacklist_matches # <<>>

\* EnvModule.blacklisted
Blacklisted(format, n) ==
    LET configuration     == Get(CONFIGURATION, format, EmptyDict)
        whitelist_matches == SelectSeq(Get(configuration, "whitelist", <<>>),
                                       LAMBDA x : Satisfies(n, x))
        blacklist_matches == SelectSeq(Get(configuration, "blacklist", <<>>),
                                       LAMBDA x : Satisfies(n, x))
    IN  whitelist_matches = <<>> /\ blacklist_matches # <<>>

\* The tokens a naming scheme may use, with their values for node n.
NamingToken(piece, n) ==
    IF piece = "{name}" THEN PkgName[n]
    ELSE IF piece = "{version}" THEN PkgVersion[n]
    ELSE IF piece = "{compiler}" THEN CompilerStr(compiler[n])
    ELSE IF piece = "{compiler.name}" THEN compiler[n].name
    ELSE IF piece = "{compiler.version}" THEN compiler[n].version
    ELSE piece

\* A naming scheme is the sequence of its '/'-separated components, each the
\* sequence of its literals and '{token}' fields.
DefaultNamingFormat ==
    << <<"{name}", "-", "{version}", "-", "{compiler.name}", "-", "{compiler.version}">> >>

\* EnvModule.naming_scheme
NamingScheme(format) ==
    LET configuration == Get(CONFIGURATION, format, EmptyDict)
    IN  Get(configuration, "naming_scheme", DefaultNamingFormat)

\* str.format on one component.
RECURSIVE FormatComponent(_, _)
FormatComponent(pieces, n) ==
    IF pieces = <<>> THEN ""
    ELSE NamingToken(Head(pieces), n) \o FormatComponent(Tail(pieces), n)

\* A use_name with the hash in front of the name.
UseNameHashFirst(format, n) ==
    LET scheme == NamingScheme(format)
        parts  == [i \in 1..Len(scheme) |-> FormatComponent(scheme[i], n)]
    IN  [parts EXCEPT ![1] = DagHash(n) \o "-" \o @]

\* EnvModule.use_name (LmodModule overrides it), as path components.
UseName(format, n) ==
    IF format = "lmod" THEN LmodUseName(LmodModule(n))
    ELSE LET scheme == NamingScheme(format)
             parts  == [i \in 1..Len(scheme) |-> FormatComponent(scheme[i], n)]
         IN  [parts EXCEPT ![Len(parts)] = @ \o "-" \o DagHash(n)]

\* '/'.join(components)
RECURSIVE JoinPath(_)
JoinPath(parts) ==
    IF Len(parts) = 1 THEN parts[1] ELSE parts[1] \o "/" \o JoinPath(Tail(parts))

\* file_name of the three generators.
FileName(format, n) ==
    IF format = "lmod" THEN LmodFileName(LmodModule(n))
    ELSE LET useName == UseName(format, n)
         IN  FormatPath(format) \o <<Architecture>> \o
             (IF format = "dotkit"
              THEN [useName EXCEPT ![Len(useName)] = @ \o ".dk"]
              ELSE useName)

-----------------------------------------------------------------------------
(* Environment modifications.  A command carries its kind, its arguments   *)
(* and where it was requested (the caller recorded in command.args).       *)

Command(kind, name, value, hook, of) ==
    [kind |-> kind, name |-> name, value |-> value, origin |-> [hook |-> hook, of |-> of]]

\* spec.prefix, and the common directories found in it.
Prefix(n) == "/opt/" \o PkgName[n]

PkgPrefixDirs == <<{"bin", "lib"}, {"lib", "include"}, {"bin"}, {"lib"},
                   {"lib", "lib/pkgconfig"}, {"bin"}>>

\* prefix_inspections: a dict, so the order its items come in is not fixed.
PrefixInspections ==
    {[attribute |-> "bin",     variables |-> <<"PATH">>],
     [attribute |-> "man",     variables |-> <<"MANPATH">>],
     [attribute |-> "lib",     variables |-> <<"LIBRARY_PATH", "LD_LIBRARY_PATH">>],
     [attribute |-> "lib64",   variables |-> <<"LIBRARY_PATH", "LD_LIBRARY_PATH">>],
     [attribute |-> "include", variables |-> <<"CPATH">>]}

\* The orders prefix_inspections.items() can come in, as far as they differ
\* for node n: the items whose directory is missing request nothing.
InspectionOrders(n) ==
    Orderings({item \in PrefixInspections : item.attribute \in PkgPrefixDirs[n]})

\* inspect_path, with the found items of prefix_inspections in order `items`.
InspectPath(n, items) ==
    LET prefix == Prefix(n)
        common == Flatten([i \in 1..Len(items) |->
                     [j \in 1..Len(items[i].variables) |->
                         Command("PrependPath", items[i].variables[j],
                                 prefix \o "/" \o items[i].attribute, "inspect_path", n)]])
        pkgconfig == Flatten([i \in 1..2 |->
                        LET expected == <<"lib/pkgconfig", "lib64/pkgconfig">>[i]
                        IN  IF expected \in PkgPrefixDirs[n]
                            THEN <<Command("PrependPath", "PKG_CONFIG_PATH",
                                           prefix \o "/" \o expected, "inspect_path", n)>>
                            ELSE <<>>])
    IN  common \o pkgconfig
        \o <<Command("PrependPath", "CMAKE_PREFIX_PATH", prefix, "inspect_path", n)>>

\* package.setup_dependent_environment(spack_env, run_env, dependent_spec): what
\* the recipe of dep requests in run_env.
SetupDependentEnvironment(dep, dependent) ==
    LET h == "setup_dependent_environment"
    IN  IF dep = Openmpi
        THEN <<Command("SetEnv", "MPICC", Prefix(dep) \o "/bin/mpicc", h, dep)>>
        ELSE IF dep = Openblas
        THEN <<Command("AppendPath", "BLAS_PATH", Prefix(dep) \o "/lib", h, dep)>>
        ELSE IF dep = Jpeg
        THEN <<Command("SetEnv", "JPEG_ROOT", Prefix(dep), h, dep),
               Command("PrependPath", "CPATH", Prefix(dep) \o "/include", h, dep)>>
        ELSE <<>>

\* package.setup_environment(spack_env, run_env): what the recipe of n requests
\* in run_env.
SetupEnvironment(n) ==
    LET h == "setup_environment"
    IN  IF n = Pkg
        THEN <<Command("SetEnv", "PKG_HOME", Prefix(n), h, n),
               Command("RemovePath", "PATH", "/usr/local/bin", h, n)>>
        ELSE IF n = Openmpi
        THEN <<Command("SetEnv", "MPICC", Prefix(n) \o "/bin/mpicc", h, n),
               Command("UnsetEnv", "OMPI_MCA_rmaps", "", h, n)>>
        ELSE IF n \in {Gcc, Llvm}
        THEN <<Command("SetEnv", "CC", Prefix(n) \o "/bin/cc", h, n)>>
        ELSE <<>>

\* filter_environment_blacklist(env, variables)
FilterEnvironmentBlacklist(env, variables) ==
    SelectSeq(env, LAMBDA command : command.name \notin Range(variables))

\* environment_modifications_formats: the kinds each format has a line for.
FormatKinds(format) ==
    IF format = "dotkit" THEN {"PrependPath", "SetEnv"}
    ELSE {"PrependPath", "AppendPath", "RemovePath", "SetEnv", "UnsetEnv"}

\* Lines that give the value as it is, without quotes.
EnvironmentLineUnquoted(format, c) ==
    (IF c.kind = "PrependPath" THEN "prepend-path "
     ELSE IF c.kind = "AppendPath" THEN "append-path "
     ELSE IF c.kind = "RemovePath" THEN "remove-path "
     ELSE IF c.kind = "SetEnv" THEN "setenv "
     ELSE "unsetenv ")
    \o c.name \o (IF c.kind = "UnsetEnv" THEN "" ELSE " " \o c.value) \o "\n"

\* environment_modifications_formats[type(command)].format(**command.args)
EnvironmentLine(format, c) ==
    IF format = "dotkit"
    THEN (IF c.kind = "PrependPath" THEN "dk_alter " ELSE "dk_setenv ")
         \o c.name \o " " \o c.value \o "\n"
    ELSE IF format = "tcl"
    THEN IF c.kind = "UnsetEnv" THEN "unsetenv " \o c.name \o "\n"
         ELSE (IF c.kind = "PrependPath" THEN "prepend-path "
               ELSE IF c.kind = "AppendPath" THEN "append-path "
               ELSE IF c.kind = "RemovePath" THEN "remove-path "
               ELSE "setenv ")
              \o c.name \o " \"" \o c.value \o "\"\n"
    ELSE IF c.kind = "UnsetEnv" THEN "unsetenv(\"" \o c.name \o "\")\n"
         ELSE (IF c.kind = "PrependPath" THEN "prepend_path("
               ELSE IF c.kind = "AppendPath" THEN "append-path("
               ELSE IF c.kind = "RemovePath" THEN "remove-path("
               ELSE "setenv(")
              \o "\"" \o c.name \o "\", \"" \o c.value \o "\")\n"

\* A rendering that ends at the first command the format has no line for.
RECURSIVE ProcessEnvironmentCommandUntilUnknown(_, _)
ProcessEnvironmentCommandUntilUnknown(format, env) ==
    IF env = <<>> \/ Head(env).kind \notin FormatKinds(format) THEN <<>>
    ELSE <<EnvironmentLine(format, Head(env))>>
         \o ProcessEnvironmentCommandUntilUnknown(format, Tail(env))

\* process_environment_command: a command of a kind the format has no line for
\* is skipped with a warning.
ProcessEnvironmentCommand(format, env) ==
    LET known == SelectSeq(env, LAMBDA c : c.kind \in FormatKinds(format))
    IN  [i \in 1..Len(known) |-> EnvironmentLine(format, known[i])]

-----------------------------------------------------------------------------
(* The rules of the configuration.  A value of a rule-set is a list, a     *)
(* nested mapping or a scalar, and carries which of the three it is.       *)

ListOf(items) == [list |-> items]

DictOf(mapping) == [dict |-> mapping]

ScalarOf(value) == [scalar |-> value]

IsList(v) == DOMAIN v = {"list"}

IsDict(v) == DOMAIN v = {"dict"}

\* update_dictionary_extending_lists
RECURSIVE UpdateDictionaryExtendingLists(_, _)
UpdateDictionaryExtendingLists(target, update) ==
    [key \in DOMAIN target \cup DOMAIN update |->
        IF key \notin DOMAIN update THEN target[key]
        ELSE IF key \in DOMAIN target /\ IsList(target[key])
        THEN ListOf(target[key].list \o update[key].list)
        ELSE IF key \in DOMAIN target /\ IsDict(target[key])
        THEN DictOf(UpdateDictionaryExtendingLists(target[key].dict, update[key].dict))
        ELSE update[key]]

\* A test that finds no key marked.
EndsWithColonNever(key) == FALSE

\* spec.endswith(':')
EndsWithColon(key) == Len(key) > 0 /\ SubSeq(key, Len(key), Len(key)) = ":"

\* spec.strip(':')
RECURSIVE StripColons(_)
StripColons(key) ==
    IF key = "" THEN key
    ELSE IF SubSeq(key, 1, 1) = ":" THEN StripColons(SubSeq(key, 2, Len(key)))
    ELSE IF EndsWithColon(key) THEN StripColons(SubSeq(key, 1, Len(key) - 1))
    ELSE key

\* The keys of the format's configuration whose rule-set applies to node n.
\* The loop of parse_config_options goes over every key but 'all'; the ones
\* the spec does not satisfy leave the actions as they are.
RuleKeys(module_configuration, n) ==
    {key \in DOMAIN module_configuration \ {"all"} :
        Satisfies(n, IF EndsWithColon(key) THEN StripColons(key) ELSE key)}

\* The merge loop of parse_config_options over the keys in order `keys`.
RECURSIVE MergeRules(_, _, _, _)
MergeRules(module_configuration, keys, n, module_file_actions) ==
    IF keys = <<>> THEN module_file_actions
    ELSE LET key      == Head(keys)
             override == EndsWithColon(key)
             spec     == IF override THEN StripColons(key) ELSE key
             conf     == module_configuration[key]
             merged   == IF Satisfies(n, spec)
                         THEN UpdateDictionaryExtendingLists(
                                  IF override THEN EmptyDict ELSE module_file_actions, conf)
                         ELSE module_file_actions
         IN  MergeRules(module_configuration, Tail(keys), n, merged)

\* The sets of actions the merge can end with: module_configuration is a dict,
\* so its items come in any order.
MergedActions(format, n) ==
    LET module_configuration == Get(CONFIGURATION, format, EmptyDict)
        all == Get(module_configuration, "all", EmptyDict)
    IN  {MergeRules(module_configuration, keys, n, all) :
            keys \in Orderings(RuleKeys(module_configuration, n))}

\* getattr(env, method): the command each method of EnvironmentModifications adds.
MethodKind(method) ==
    IF method = "set" THEN "SetEnv"
    ELSE IF method = "unset" THEN "UnsetEnv"
    ELSE IF method = "prepend_path" THEN "PrependPath"
    ELSE IF method = "append_path" THEN "AppendPath"
    ELSE "RemovePath"

\* The environment loop of parse_config_options over the methods in order
\* `methods`; an item is the sequence of its comma-separated arguments.
ConfiguredEnvironment(environment_actions, methods, n) ==
    Flatten([i \in 1..Len(methods) |->
        LET arglist == environment_actions[methods[i]].list
        IN  [j \in 1..Len(arglist) |->
                Command(MethodKind(methods[i]), arglist[j][1],
                        IF Len(arglist[j]) > 1 THEN arglist[j][2] ELSE "",
                        "parse_config_options", n)]])

\* parse_config_options: the results it can have.  `raised` tells that a
\* request mode was not one of 'none', 'direct', 'all'.
ParseConfigOptions(format, n) ==
    UNION {
        LET autoloads     == DependenciesResults(deps, n, Get(actions, "autoload", ScalarOf("none")).scalar)
            prerequisites == DependenciesResults(deps, n, Get(actions, "prerequisites", ScalarOf("none")).scalar)
            environment_actions == Get(actions, "environment", DictOf(EmptyDict)).dict
        IN  IF autoloads = {} \/ prerequisites = {}
            THEN {[raised |-> TRUE, actions |-> actions, autoload |-> <<>>,
                   prerequisites |-> <<>>, env |-> <<>>]}
            ELSE {[raised |-> FALSE, actions |-> actions, autoload |-> a,
                   prerequisites |-> p,
                   env |-> ConfiguredEnvironment(environment_actions, methods, n)] :
                     a \in autoloads, p \in prerequisites,
                     methods \in Orderings(DOMAIN environment_actions)}
        : actions \in MergedActions(format, n)}

-----------------------------------------------------------------------------
(* Values of the variables while nothing has used them.                    *)

NoCall == [spec |-> 0, request |-> "", raised |-> FALSE, result |-> <<>>]

NoModule == [spec |-> 0]

\* An environment variable pair LMOD_<X>_NAME / LMOD_<X>_VERSION that is unset.
Unset == [name |-> "", version |-> ""]

\* The virtual packages a configuration may add to the hierarchy.
ExtraTokens == {"blas", "jpeg", "lapack"}

SessionTokens == ExtraTokens \cup {"mpi", "compiler"}

NoLast == [op |-> "", format |-> "", spec |-> 0]

IdleDeps == depCall = NoCall

IdleLmod == gen = NoModule /\ loaded = {} /\ MODULEPATH = <<>>
            /\ lmodEnv = [x \in SessionTokens |-> Unset]

IdleTree == files = EmptyDict /\ dirs = {} /\ last = NoLast

-----------------------------------------------------------------------------
(* The dependency projector on every DAG of MaxNodes nodes.                *)

InitDeps ==
    /\ deps \in {d \in [DagNodes -> SUBSET DagNodes] : IsDag(d)}
    /\ compiler = [n \in DagNodes |-> CHOOSE c \in Compilers : c.name = "gcc"]
    /\ CONFIGURATION = [enable |-> <<>>]
    /\ IdleDeps /\ IdleLmod /\ IdleTree

\* A call dependencies(spec, request) that returns.
DependenciesReturns(spec, request) ==
    /\ \E result \in DependenciesResults(deps, spec, request) :
           depCall' = [spec |-> spec, request |-> request, raised |-> FALSE, result |-> result]
    /\ UNCHANGED <<deps, compiler, CONFIGURATION, gen, loaded, MODULEPATH, lmodEnv,
                   files, dirs, last>>

\* A call dependencies(spec, request) with a request that is none of the three.
DependenciesRaises(spec, request) ==
    /\ DependenciesResults(deps, spec, request) = {}
    /\ depCall' = [spec |-> spec, request |-> request, raised |-> TRUE, result |-> <<>>]
    /\ UNCHANGED <<deps, compiler, CONFIGURATION, gen, loaded, MODULEPATH, lmodEnv,
                   files, dirs, last>>

NextDeps ==
    \E spec \in DOMAIN deps, request \in Requests \cup {"everything"} :
        \/ DependenciesReturns(spec, request)
        \/ DependenciesRaises(spec, request)

SpecDeps == InitDeps /\ [][NextDeps]_vars

\* C1: dependencies(spec, 'all') returns each dependency reachable from spec
\* exactly once, and a dependency B that a returned dependency A depends on
\* (directly or transitively) stands before A in the list.
C1_EachOnceDependenciesFirst ==
    (depCall.request = "all" /\ ~depCall.raised) =>
        LET l == depCall.result
        IN  /\ Range(l) = Reachable(deps, depCall.spec)
            /\ NoDuplicates(l)
            /\ \A i, j \in DOMAIN l :
                   l[j] \in Reachable(deps, l[i]) => j < i

\* The part of C1 the code keeps: each reachable dependency exactly once.
C1_EachOnce ==
    (depCall.request = "all" /\ ~depCall.raised) =>
        /\ Range(depCall.result) = Reachable(deps, depCall.spec)
        /\ NoDuplicates(depCall.result)

-----------------------------------------------------------------------------
(* The Lmod generator on the installed packages, for every hierarchy and   *)
(* core-compiler configuration within the bounds.                          *)

MaxExtra == 2

MaxLoaded == 3

\* The values of lmod: hierarchical_scheme: at most MaxExtra distinct virtual
\* packages in any order.
HierarchicalSchemes ==
    UNION {Orderings(S) : S \in {T \in SUBSET ExtraTokens : Cardinality(T) <= MaxExtra}}

CoreCompilerLists == {<<>>, <<"gcc@8.0">>}

LmodConfigurations ==
    {[enable |-> <<"lmod">>]}
    \cup {[enable |-> <<"lmod">>,
           lmod   |-> [hierarchical_scheme |-> hs, core_compilers |-> cc]] :
              hs \in HierarchicalSchemes, cc \in CoreCompilerLists}

\* The DAGs of the installation: pkg depends on any of the three providers,
\* and libjpeg-turbo may itself be built on MPI.
LmodDags ==
    {[n \in Pkgs |-> IF n = Pkg THEN onPkg ELSE IF n = Jpeg THEN onJpeg ELSE {}] :
        onPkg \in SUBSET {Jpeg, Openblas, Openmpi}, onJpeg \in {{}, {Openmpi}}}

InitLmod ==
    /\ deps \in LmodDags
    /\ compiler \in {[n \in Pkgs |-> c] : c \in Compilers}
    /\ CONFIGURATION \in LmodConfigurations
    /\ IdleDeps /\ IdleLmod /\ IdleTree

\* LmodModule(spec): construct the generator for a node.
LmodGenerate(n) ==
    /\ gen' = Generated(LmodModule(n))
    /\ UNCHANGED <<deps, compiler, CONFIGURATION, depCall, loaded, MODULEPATH, lmodEnv,
                   files, dirs, last>>

NextLmod == \E n \in Pkgs : LmodGenerate(n)

SpecLmod == InitLmod /\ [][NextLmod]_vars

\* The conditional blocks of the generated module's header.
GenConditionals ==
    IF gen.header.modulepath = <<>> THEN <<>> ELSE gen.header.modulepath[1].conditionals

\* The subsets of the hierarchy tokens with 'compiler' and a provided token.
GenProvidingSubsets ==
    {T \in SUBSET Range(gen.hierarchy_tokens) :
        "compiler" \in T /\ T \cap DOMAIN gen.provides # {}}

\* The hierarchy tokens the generated module neither requires nor provides.
GenMissing == Range(gen.hierarchy_tokens) \ (DOMAIN gen.requires \cup DOMAIN gen.provides)

C6_FileNameFollowsRequires ==
    gen # NoModule =>
        LET tokens  == Get(LmodConfiguration, "hierarchical_scheme", <<>>) \o <<"mpi", "compiler">>
            present == SelectSeq(tokens, LAMBDA t : t \in DOMAIN gen.requires)
            groups  == [i \in 1..Len(present) |->
                           TokenToPath(gen, present[i], gen.requires[present[i]])]
        IN  /\ gen.hierarchy_tokens = tokens
            /\ gen.file_name = <<"lmod", Architecture>> \o Flatten(groups)
                               \o <<gen.use_name[1], gen.use_name[2] \o ".lua">>

\* A module that requires two tokens besides 'compiler' and has a hierarchy
\* token that it does not require.
C6_Witness ==
    /\ gen # NoModule
    /\ Cardinality(DOMAIN gen.requires) >= 3
    /\ Range(gen.hierarchy_tokens) \ DOMAIN gen.requires # {}

\* C7: the compiler segment of the path is 'Core' exactly when the string of
\* the spec's compiler is in core_compilers, and name/version otherwise;
\* pkg@1.0%gcc@8.0 without hierarchy dependencies is at Core/pkg/1.0-<hash6>.lua
\* under core_compilers [gcc@8.0] and at gcc/8.0/pkg/1.0-<hash6>.lua under [].
C7_CoreIffCoreCompiler ==
    gen # NoModule =>
        LET own  == compiler[gen.spec]
            core == CompilerStr(own) \in Range(Get(LmodConfiguration, "core_compilers", <<>>))
            path == gen.file_name
            end  == Len(path) - 2
        IN  /\ core <=> path[end] = "Core"
            /\ ~core => path[end - 1] = own.name /\ path[end] = own.version
            /\ (gen.spec = Pkg /\ DOMAIN gen.requires = {"compiler"} /\ CompilerStr(own) = "gcc@8.0")
                   => path = IF Get(LmodConfiguration, "core_compilers", <<>>) = <<"gcc@8.0">>
                             THEN <<"lmod", Architecture, "Core", "pkg",
                                    "1.0-" \o DagHash6(Pkg) \o ".lua">>
                             ELSE <<"lmod", Architecture, "gcc", "8.0", "pkg",
                                    "1.0-" \o DagHash6(Pkg) \o ".lua">>

\* pkg@1.0%gcc@8.0 without hierarchy dependencies, placed under Core.
C7_Witness ==
    /\ gen # NoModule
    /\ gen.spec = Pkg
    /\ DOMAIN gen.requires = {"compiler"}
    /\ gen.file_name[3] = "Core"

\* C8: 'compiler' is a key of requires or of provides of every generator, and
\* requires['compiler'] is the spec's own compiler, also when the package
\* provides 'compiler'.
C8_RequiresOwnCompiler ==
    gen # NoModule =>
        /\ "compiler" \in DOMAIN gen.requires \cup DOMAIN gen.provides
        /\ "compiler" \in DOMAIN gen.requires
        /\ \A x \in DOMAIN gen.requires : x = "compiler" => gen.requires[x] = compiler[gen.spec]

\* The generator of a package that provides 'compiler'.
C8_Witness ==
    /\ gen # NoModule
    /\ "compiler" \in DOMAIN gen.provides
    /\ gen.provides["compiler"] # compiler[gen.spec]

\* C9: the module of a package that provides 'compiler' has no probe
\* variables, no conditional blocks and no LMOD_<TOKEN>_NAME/VERSION settings;
\* its MODULEPATH block is the one prepend of root/architecture followed by
\* the path of what it requires or provides.
C9_CompilerProviderOnlyPrepends ==
    (gen # NoModule /\ "compiler" \in DOMAIN gen.provides) =>
        LET keys    == DOMAIN gen.requires \cup DOMAIN gen.provides
            present == SelectSeq(gen.hierarchy_tokens, LAMBDA t : t \in keys)
            value(t) == IF t \in DOMAIN gen.provides THEN gen.provides[t] ELSE gen.requires[t]
            groups  == [i \in 1..Len(present) |-> TokenToPath(gen, present[i], value(present[i]))]
        IN  /\ Len(gen.header.modulepath) = 1
            /\ gen.header.modulepath[1].probes = <<>>
            /\ gen.header.modulepath[1].conditionals = <<>>
            /\ DOMAIN gen.header.modulepath[1].settings = {}
            /\ gen.header.modulepath[1].prepend = <<"lmod", Architecture>> \o Flatten(groups)

\* The module of a compiler, in a hierarchy that has tokens it lacks.
C9_Witness ==
    /\ gen # NoModule
    /\ "compiler" \in DOMAIN gen.provides
    /\ GenMissing # {}
    /\ Len(gen.header.modulepath) = 1

-----------------------------------------------------------------------------
(* A shell session that loads generated Lmod modules: what the MODULEPATH  *)
(* block of a module file does when Lmod runs it.                          *)

\* pathJoin(root, ...) of a conditional block, with the probe variables read
\* from env.
ConditionalPath(block, env) ==
    block.root \o
    Flatten([i \in 1..Len(block.parts) |->
                IF block.parts[i].probe # None
                THEN <<env[block.parts[i].probe].name, env[block.parts[i].probe].version>>
                ELSE block.parts[i].literal])

\* Run the conditional blocks in file order on the search path.
RECURSIVE RunConditionals(_, _, _)
RunConditionals(blocks, env, path) ==
    IF blocks = <<>> THEN path
    ELSE LET b == Head(blocks)
             holds == \A i \in 1..Len(b.needed) : env[b.needed[i]] # Unset
         IN  RunConditionals(Tail(blocks), env,
                             IF holds THEN <<ConditionalPath(b, env)>> \o path ELSE path)

\* module load of the module file of node n.
ModuleLoad(n) ==
    LET header == LmodHeader(LmodModule(n))
    IN  /\ n \notin loaded
        /\ Cardinality(loaded) < MaxLoaded
        /\ header.modulepath # <<>>
        /\ gen # NoModule
        /\ loaded' = loaded \cup {n}
        /\ LET block == header.modulepath[1]
           IN  /\ MODULEPATH' = RunConditionals(block.conditionals, lmodEnv,
                                                <<block.prepend>> \o MODULEPATH)
               /\ lmodEnv' = [x \in SessionTokens |->
                                 IF x \in DOMAIN block.settings THEN block.settings[x]
                                 ELSE lmodEnv[x]]
        /\ UNCHANGED <<deps, compiler, CONFIGURATION, depCall, gen, files, dirs, last>>

\* The consumer's module file is generated before the session starts.
GenerateConsumer(n) ==
    /\ gen = NoModule
    /\ DOMAIN LmodModule(n).requires # {"compiler"}
    /\ LmodGenerate(n)

NextLoad ==
    \/ \E n \in Pkgs : GenerateConsumer(n)
    \/ \E n \in Pkgs : ModuleLoad(n)

SpecLoad == InitLmod /\ [][NextLoad]_vars

\* The nodes that provide the non-compiler hierarchy tokens module m requires.
RequiredProviders(m) ==
    {NodeOfName(m.requires[x].name) : x \in DOMAIN m.requires \ {"compiler"}}

\* C4: once the consumer's module file is generated and the modules of the
\* providers of every non-compiler token it requires are loaded (providers and
\* consumer built with one compiler), the directory the consumer's module is
\* looked up from is on MODULEPATH.
C4_ConsumerDirectoryOnModulepath ==
    (/\ gen # NoModule
     /\ RequiredProviders(gen) # {}
     /\ RequiredProviders(gen) \subseteq loaded
     /\ \A p \in RequiredProviders(gen) : compiler[p] = compiler[gen.spec])
    => ModuleDirectory(gen.file_name) \in Range(MODULEPATH)

-----------------------------------------------------------------------------
(* The blacklist test on every whitelist and blacklist of at most          *)
(* MaxPatterns patterns, for each format.                                  *)

MaxPatterns == 2

PatternLists == UNION {[1..k -> Patterns] : k \in 0..MaxPatterns}

\* A format's configuration with any of the two lists left out or given.
ListConfigurations ==
    {EmptyDict}
    \cup {[whitelist |-> w] : w \in PatternLists}
    \cup {[blacklist |-> b] : b \in PatternLists}
    \cup {[whitelist |-> w, blacklist |-> b] : w \in PatternLists, b \in PatternLists}

InitBlacklist ==
    /\ deps = [n \in Pkgs |-> {}]
    /\ compiler \in {[n \in Pkgs |-> c] : c \in Compilers}
    /\ CONFIGURATION \in
           {[enable |-> <<"dotkit", "tcl", "lmod">>]}
           \cup {[enable |-> <<"dotkit", "tcl", "lmod">>, dotkit |-> c] : c \in ListConfigurations}
           \cup {[enable |-> <<"dotkit", "tcl", "lmod">>, tcl |-> c] : c \in ListConfigurations}
           \cup {[enable |-> <<"dotkit", "tcl", "lmod">>, lmod |-> c] : c \in ListConfigurations}
    /\ IdleDeps /\ IdleLmod /\ IdleTree

\* Read the blacklisted property of the generator of a format for a node.
ReadBlacklisted(format, n) ==
    /\ last' = [op |-> "blacklisted", format |-> format, spec |-> n,
                blacklisted |-> Blacklisted(format, n)]
    /\ UNCHANGED <<deps, compiler, CONFIGURATION, depCall, gen, loaded, MODULEPATH,
                   lmodEnv, files, dirs>>

NextBlacklist == \E format \in Formats, n \in {Openmpi, Pkg} : ReadBlacklisted(format, n)

SpecBlacklist == InitBlacklist /\ [][NextBlacklist]_vars

\* C2: blacklisted is true exactly when the spec satisfies some pattern of the
\* format's blacklist and no pattern of its whitelist.
C2_BlacklistedIffBlackAndNotWhite ==
    last.op = "blacklisted" =>
        LET configuration == IF last.format \in DOMAIN CONFIGURATION
                             THEN CONFIGURATION[last.format] ELSE EmptyDict
            white == IF "whitelist" \in DOMAIN configuration
                     THEN Range(configuration["whitelist"]) ELSE {}
            black == IF "blacklist" \in DOMAIN configuration
                     THEN Range(configuration["blacklist"]) ELSE {}
        IN  last.blacklisted <=>
                /\ \E b \in black : Satisfies(last.spec, b)
                /\ ~ \E w \in white : Satisfies(last.spec, w)

\* A spec that matches a pattern of both lists has been tested.
C2_Witness ==
    /\ last.op = "blacklisted"
    /\ last.format \in DOMAIN CONFIGURATION
    /\ DOMAIN CONFIGURATION[last.format] = {"whitelist", "blacklist"}
    /\ \E b \in Range(CONFIGURATION[last.format]["blacklist"]) : Satisfies(last.spec, b)
    /\ \E w \in Range(CONFIGURATION[last.format]["whitelist"]) : Satisfies(last.spec, w)
    /\ ~last.blacklisted

-----------------------------------------------------------------------------
(* The content of a module file.                                           *)

\* spec.format("$_ $@")
ShortDescription(n) == PkgName[n] \o " @" \o PkgVersion[n]

\* The header property of the three generators.  The packages of the catalog
\* have no category, no short description and no docstring of their own; the
\* time of generation that TclModule prints is left out of the line it is on.
Header(format, n) ==
    IF format = "lmod" THEN LmodHeader(LmodModule(n))
    ELSE IF format = "dotkit"
    THEN [lines |-> <<"#c spack\n", "#d " \o ShortDescription(n) \o "\n">>]
    ELSE [lines |-> <<"#%Module1.0\n",
                      "## Module file created by spack (https://github.com/LLNL/spack)\n",
                      "##\n",
                      "## " \o PkgName[n] \o "@" \o PkgVersion[n] \o "%"
                            \o CompilerStr(compiler[n]) \o "\n",
                      "##\n",
                      "module-whatis \"" \o ShortDescription(n) \o "\"\n\n">>]

\* autoload_format.format(module_file=...)
AutoloadFormat(format, module_file) ==
    IF format = "dotkit" THEN "dk_op " \o module_file \o "\n"
    ELSE IF format = "tcl"
    THEN "if ![ is-loaded " \o module_file \o " ] {\n"
         \o "    puts stderr \"Autoloading " \o module_file \o "\"\n"
         \o "    module load " \o module_file \o "\n}\n\n"
    ELSE "if not isloaded(\"" \o module_file \o "\") then\n"
         \o "    LmodMessage(\"Autoloading " \o module_file \o "\")\n"
         \o "    load(\"" \o module_file \o "\")\nend\n\n"

\* prerequisite_format.format(module_file=...); Dotkit has None for a format.
PrerequisiteFormat(format, module_file) ==
    IF format = "tcl" THEN "prereq " \o module_file \o "\n"
    ELSE "prereq(\"" \o module_file \o "\")\n"

\* A filter that lets every spec through.
FilterBlacklistedNothing(specs, format) == specs

\* filter_blacklisted
FilterBlacklisted(specs, format) ==
    SelectSeq(specs, LAMBDA x : ~Blacklisted(format, x))

\* EnvModule.autoload for each spec of a list
AutoloadLines(format, specs) ==
    [i \in 1..Len(specs) |-> AutoloadFormat(format, JoinPath(UseName(format, specs[i])))]

\* EnvModule.prerequisite for each spec of a list
PrerequisiteLines(format, specs) ==
    [i \in 1..Len(specs) |-> PrerequisiteFormat(format, JoinPath(UseName(format, specs[i])))]

\* A component of a scheme has a '{token}' field.
HasField(pieces) == \E i \in DOMAIN pieces : SubSeq(pieces[i], 1, 1) = "{"

\* zip(naming_scheme.split('/'), item.split('/')) holds a pair that differs.
ConflictMismatch(naming, item) ==
    \E i \in 1..Len(naming) : i <= Len(item) /\ naming[i] # item[i]

\* TclModule.module_specific_content; the other generators have none.
ModuleSpecificContent(format, n, configuration) ==
    LET conflict_format == Get(configuration, "conflict", ListOf(<<>>)).list
        substituted(item) == \E i \in DOMAIN item : HasField(item[i])
        line(item) == "conflict "
                      \o JoinPath([i \in 1..Len(item) |-> FormatComponent(item[i], n)])
                      \o "\n"
    IN  IF format # "tcl" THEN [raised |-> FALSE, lines |-> <<>>]
        ELSE IF \E k \in DOMAIN conflict_format :
                    /\ substituted(conflict_format[k])
                    /\ ConflictMismatch(NamingScheme(format), conflict_format[k])
        THEN [raised |-> TRUE, lines |-> <<>>]
        ELSE [raised |-> FALSE,
              lines  |-> [k \in 1..Len(conflict_format) |-> line(conflict_format[k])]]

\* module_types has the formats listed in CONFIGURATION['enable'].
Enabled(format) == format \in Range(CONFIGURATION.enable)

\* A write() that filters nothing.
EnvironmentBlacklistEmpty(module_configuration) == <<>>

\* filters = module_configuration.get('filter', {}).get('environment_blacklist', {})
EnvironmentBlacklist(module_configuration) ==
    Get(Get(module_configuration, "filter", DictOf(EmptyDict)).dict,
        "environment_blacklist", ListOf(<<>>)).list

\* The commands process_environment_command has no line for: each is skipped
\* with a warning that names its type and where it was requested.
EnvironmentWarnings(format, env) ==
    LET unknown == SelectSeq(env, LAMBDA c : c.kind \notin FormatKinds(format))
    IN  [i \in 1..Len(unknown) |-> [type |-> unknown[i].kind, origin |-> unknown[i].origin]]

\* The lines of a header; the header of LmodModule is kept whole.
HeaderLines(header) == IF "lines" \in DOMAIN header THEN header.lines ELSE <<header>>

\* A content with the environment block ahead of the autoload block.
ModuleFileTextEnvironmentFirst(header, autoload, prerequisites, environment, extra) ==
    HeaderLines(header) \o environment \o autoload \o prerequisites \o extra

\* module_file_content: the header, then += for each autoload line, each
\* prerequisite line, each environment line and each line of
\* module_specific_content.
ModuleFileText(header, autoload, prerequisites, environment, extra) ==
    HeaderLines(header) \o autoload \o prerequisites \o environment \o extra

\* The part of write() that builds the content, from the header to the last
\* line; `raised` names the exception that ends it, if one does.
ModuleFileContent(format, n, parsed, env) ==
    LET module_configuration == parsed.actions
        filters   == EnvironmentBlacklist(module_configuration)
        autoloads == FilterBlacklisted(parsed.autoload, format)
        prereqs   == FilterBlacklisted(parsed.prerequisites, format)
        block     == ProcessEnvironmentCommand(format, FilterEnvironmentBlacklist(env, filters))
        extra     == ModuleSpecificContent(format, n, module_configuration)
        raised    == IF ~Enabled(format) /\ parsed.autoload \o parsed.prerequisites # <<>>
                     THEN "KeyError"
                     ELSE IF format = "dotkit" /\ prereqs # <<>> THEN "AttributeError"
                     ELSE IF extra.raised THEN "SystemExit"
                     ELSE ""
    IN  [raised   |-> raised,
         block    |-> IF raised \in {"", "SystemExit"} THEN block ELSE <<>>,
         warnings |-> IF raised \in {"", "SystemExit"}
                      THEN EnvironmentWarnings(format, FilterEnvironmentBlacklist(env, filters))
                      ELSE <<>>,
         content  |-> IF raised # "" THEN EmptyDict
                     ELSE [header        |-> Header(format, n),
                           autoload      |-> AutoloadLines(format, autoloads),
                           prerequisites |-> PrerequisiteLines(format, prereqs),
                           environment   |-> block,
                           extra         |-> extra.lines,
                           text          |-> ModuleFileText(
                                                 Header(format, n),
                                                 AutoloadLines(format, autoloads),
                                                 PrerequisiteLines(format, prereqs),
                                                 block, extra.lines)]]

-----------------------------------------------------------------------------
(* The hooks of write().                                                   *)

\* The loop over dependencies(self.spec, 'all'): each dependency's
\* setup_dependent_environment acts on the shared env, and is recorded.
RECURSIVE RunDependentHooks(_, _, _)
RunDependentHooks(items, dependent, run) ==
    IF items = <<>> THEN run
    ELSE LET package == SpecGetItem(deps, dependent, PkgName[Head(items)])
         IN  RunDependentHooks(Tail(items), dependent,
                 [calls |-> Append(run.calls,
                                   [hook |-> "setup_dependent_environment", of |-> package]),
                  env   |-> run.env \o SetupDependentEnvironment(package, dependent)])

\* The package's own setup_environment on the shared env.
RunPackageHook(n, run) ==
    [calls |-> Append(run.calls, [hook |-> "setup_environment", of |-> n]),
     env   |-> run.env \o SetupEnvironment(n)]

\* write(), from inspect_path to the package's own hook.
RunHooks(n, items) ==
    RunPackageHook(n,
        RunDependentHooks(DependenciesAll(deps, n), n,
                          [calls |-> <<>>, env |-> InspectPath(n, items)]))

-----------------------------------------------------------------------------
(* The module tree: directories and files below spack.share_path, each     *)
(* named by the sequence of its path components.                           *)

\* os.path.dirname
Dirname(path) == SubSeq(path, 1, Len(path) - 1)

\* mkdirp(dir): the directory and every ancestor of it that is missing.
Mkdirp(dir, tree) == tree \cup {SubSeq(dir, 1, k) : k \in 1..Len(dir)}

\* A directory with an entry in it.
NonEmpty(dir, tree, fs) ==
    \/ \E d \in tree : Len(d) > 0 /\ Dirname(d) = dir
    \/ \E f \in DOMAIN fs : Dirname(f) = dir

\* os.removedirs(dir) raises OSError when the leaf cannot be removed; what
\* stops it at a parent is not raised.
RemovedirsError(dir, tree, fs) ==
    IF dir \notin tree \/ NonEmpty(dir, tree, fs) THEN "OSError" ELSE ""

\* A remove() without the except clause.
RemoveExceptNothing(error) == error

\* try ... except OSError: pass
RemoveExcept(error) == IF error = "OSError" THEN "" ELSE error

\* A removal of the leaf directory alone, empty or not.
RemovedirsLeafOnly(dir, tree, fs) == tree \ {dir}

\* os.removedirs(dir): remove the leaf, then each parent, until one is not
\* empty (OSError, which remove() swallows).
RECURSIVE Removedirs(_, _, _)
Removedirs(dir, tree, fs) ==
    IF dir = <<>> \/ dir \notin tree \/ NonEmpty(dir, tree, fs) THEN tree
    ELSE Removedirs(Dirname(dir), tree \ {dir}, fs)

-----------------------------------------------------------------------------
(* Module generation: write() and remove() of the three generators on one  *)
(* module tree.                                                            *)

\* The rules given to a format in modules.yaml.
PlainRules == EmptyDict

AutoloadRules ==
    [blacklist |-> <<"openmpi">>,
     all       |-> [autoload    |-> ScalarOf("direct"),
                    environment |-> DictOf([set |-> ListOf(<< <<"FOO", "bar">> >>)])]]

FilterRules ==
    [blacklist |-> <<"%gcc@8.0">>,
     whitelist |-> <<"pkg">>,
     all       |-> [autoload |-> ScalarOf("all"),
                    filter   |-> DictOf([environment_blacklist |->
                                            ListOf(<<"CPATH", "FOO", "PATH">>)])],
     pkg       |-> [environment |-> DictOf([set         |-> ListOf(<< <<"FOO", "bar">>,
                                                                      <<"PKG_MODE", "fast">> >>),
                                            append_path |-> ListOf(<< <<"PATH", "/opt/bin">> >>)])]]

OverrideRules ==
    ("pkg:" :> [prerequisites |-> ScalarOf("direct")])
    @@ [all |-> [autoload |-> ScalarOf("everything")]]

ConflictRules ==
    [naming_scheme |-> << <<"{name}">>, <<"{version}", "-", "{compiler.name}">> >>,
     all           |-> [conflict |-> ListOf(<< << <<"{name}">> >>, << <<"intel">> >> >>)]]

MismatchRules ==
    [naming_scheme |-> << <<"{name}">>, <<"{version}", "-", "{compiler.name}">> >>,
     all           |-> [conflict |-> ListOf(<< << <<"{version}">> >> >>)]]

RuleSets == {PlainRules, AutoloadRules, FilterRules, OverrideRules, ConflictRules,
             MismatchRules}

AllFormats == <<"dotkit", "tcl", "lmod">>

\* modules.yaml with the same rules for each format, and a hierarchy for lmod.
Configure(enable, rules) ==
    [enable |-> enable,
     dotkit |-> rules,
     tcl    |-> rules,
     lmod   |-> rules @@ [hierarchical_scheme |-> <<"lapack">>,
                          core_compilers      |-> <<"gcc@8.0">>]]

MainConfigurations ==
    {[enable |-> AllFormats]}
    \cup {Configure(AllFormats, rules) : rules \in RuleSets}
    \cup {Configure(<<"tcl", "lmod">>, AutoloadRules)}

\* The installations: pkg on MPI and BLAS, pkg on JPEG and MPI with JPEG itself
\* built on MPI.
MainDags ==
    {[n \in Pkgs |-> IF n = Pkg THEN {Openmpi, Openblas} ELSE {}],
     [n \in Pkgs |-> IF n = Pkg THEN {Jpeg, Openmpi}
                     ELSE IF n = Jpeg THEN {Openmpi} ELSE {}]}

\* The specs module files are generated for.
Targets == {Openmpi, Pkg}

Init ==
    /\ deps \in MainDags
    /\ compiler \in {[n \in Pkgs |-> c] : c \in Compilers}
    /\ CONFIGURATION \in MainConfigurations
    /\ lmodEnv = [t \in SessionTokens |-> Unset]
    /\ IdleDeps /\ IdleLmod /\ IdleTree

\* A write() that makes the module directory before it tests the blacklist.
WriteBlacklistedAfterMkdirp(format, n) ==
    /\ last' = [op |-> "write", format |-> format, spec |-> n, blacklisted |-> TRUE,
                raised |-> "", calls |-> <<>>, env |-> <<>>, block |-> <<>>,
                warnings |-> <<>>, configuration |-> EmptyDict, autoload |-> <<>>,
                prerequisites |-> <<>>, existed |-> FileName(format, n) \in DOMAIN files]
    /\ dirs' = Mkdirp(SubSeq(FileName(format, n), 1, Len(FileName(format, n)) - 1), dirs)
    /\ UNCHANGED <<files, CONFIGURATION>>

\* write() of a blacklisted spec: the early return.
WriteBlacklisted(format, n) ==
    /\ last' = [op |-> "write", format |-> format, spec |-> n, blacklisted |-> TRUE,
                raised |-> "", calls |-> <<>>, env |-> <<>>, block |-> <<>>,
                warnings |-> <<>>, configuration |-> EmptyDict, autoload |-> <<>>,
                prerequisites |-> <<>>, existed |-> FileName(format, n) \in DOMAIN files]
    /\ UNCHANGED <<files, dirs, CONFIGURATION>>

\* A write() that puts the configured modifications first.
WriteEnvironmentConfigurationFirst(run_env, conf_env) == conf_env \o run_env

\* The order write() puts the requested modifications in.
WriteEnvironment(run_env, conf_env) == run_env \o conf_env

\* An open() that drops what else the tree holds.
WriteFileOnly(file_name, content, fs) == file_name :> content

\* with open(self.file_name, 'w') as f: f.write(module_file_content)
WriteFile(file_name, content, fs) == (file_name :> content) @@ fs

\* A parse_config_options that pops 'all' from CONFIGURATION[name] itself.
ConfigurationAfterParseInPlace(format) ==
    IF format \in DOMAIN CONFIGURATION
    THEN LET module_configuration == CONFIGURATION[format]
         IN  [CONFIGURATION EXCEPT ![format] =
                 [key \in DOMAIN module_configuration \ {"all"} |-> module_configuration[key]]]
    ELSE CONFIGURATION

\* CONFIGURATION after parse_config_options: pop('all'), the merges and the
\* assignments of lines 181-201 act on a deep copy (line 176).
ConfigurationAfterParse(format) == CONFIGURATION

\* A write() that opens the file before it builds the content: an exception
\* leaves the file truncated.
FilesAfterWriteOpenedFirst(raised, file_name, content, fs) ==
    IF raised = "" THEN WriteFile(file_name, content, fs)
    ELSE WriteFile(file_name, EmptyDict, fs)

\* The files write() leaves: the content is built first (lines 362-374) and
\* the file is opened last (line 377), so an exception leaves the tree's files
\* as they were.
FilesAfterWrite(raised, file_name, content, fs) ==
    IF raised = "" THEN WriteFile(file_name, content, fs) ELSE fs

\* write() of a spec that is not blacklisted.
WriteModule(format, n) ==
    \E items \in InspectionOrders(n), parsed \in ParseConfigOptions(format, n) :
        LET file_name  == FileName(format, n)
            module_dir == Dirname(file_name)
            run        == RunHooks(n, items)
            env        == WriteEnvironment(run.env, parsed.env)
            module     == IF parsed.raised
                          THEN [raised |-> "Error", block |-> <<>>, warnings |-> <<>>,
                                content |-> EmptyDict]
                          ELSE ModuleFileContent(format, n, parsed, env)
        IN  /\ dirs' = Mkdirp(module_dir, dirs)
            /\ CONFIGURATION' = ConfigurationAfterParse(format)
            /\ files' = FilesAfterWrite(module.raised, file_name, module.content, files)
            /\ last' = [op |-> "write", format |-> format, spec |-> n,
                        blacklisted |-> FALSE, raised |-> module.raised,
                        calls |-> run.calls, env |-> env, block |-> module.block,
                        warnings |-> module.warnings, configuration |-> parsed.actions,
                        autoload |-> parsed.autoload,
                        prerequisites |-> parsed.prerequisites,
                        existed |-> file_name \in DOMAIN files]

\* EnvModule.write
Write(format, n) ==
    /\ IF Blacklisted(format, n) THEN WriteBlacklisted(format, n) ELSE WriteModule(format, n)
    /\ UNCHANGED <<deps, compiler, depCall, gen, loaded, MODULEPATH, lmodEnv>>

\* EnvModule.remove
Remove(format, n) ==
    LET mod_file == FileName(format, n)
        existed  == mod_file \in DOMAIN files
        left     == [f \in DOMAIN files \ {mod_file} |-> files[f]]
    IN  /\ files' = left
        /\ dirs' = IF existed THEN Removedirs(Dirname(mod_file), dirs, left) ELSE dirs
        /\ last' = [op |-> "remove", format |-> format, spec |-> n, existed |-> existed,
                    raised |-> IF existed
                               THEN RemoveExcept(RemovedirsError(Dirname(mod_file), dirs, left))
                               ELSE "",
                    again |-> last.op = "remove" /\ last.format = format /\ last.spec = n]
        /\ UNCHANGED <<deps, compiler, CONFIGURATION, depCall, gen, loaded, MODULEPATH,
                       lmodEnv>>

Next ==
    \E format \in Formats, n \in Targets :
        \/ Write(format, n)
        \/ Remove(format, n)

Spec == Init /\ [][Next]_vars

\* C3: write() on a blacklisted spec is a no-op: the step leaves every file
\* and every directory of the module tree as it was, calls no dependency or
\* package hook, and raises nothing, whatever the tree held before.
C3_BlacklistedWriteIsNoOp ==
    [][(last'.op = "write" /\ Blacklisted(last'.format, last'.spec))
          => /\ files' = files
             /\ dirs' = dirs
             /\ last'.calls = <<>>
             /\ last'.raised = ""]_vars

\* A blacklisted spec was written on a tree that already holds module files.
C3_Witness ==
    /\ last.op = "write"
    /\ Blacklisted(last.format, last.spec)
    /\ DOMAIN files # {}
    /\ dirs # {}

\* C10: in a write() of a spec that is not blacklisted, the hooks called are
\* setup_dependent_environment of each dependency in the order of
\* dependencies(spec, 'all') and then the package's own setup_environment; the
\* edits of the dependencies come in that order, before those of the package,
\* with the configured edits after both; and the environment block is the
\* rendering, in that same order, of the edits it has a line for.
C10_HooksInDependencyOrderThenPackageThenConfiguration ==
    (last.op = "write" /\ ~Blacklisted(last.format, last.spec)) =>
        LET all == DependenciesAll(deps, last.spec)
            rank(c) == IF c.origin.hook = "inspect_path" THEN 0
                       ELSE IF c.origin.hook = "setup_dependent_environment"
                       THEN IF c.origin.of \in Range(all) THEN IndexOf(all, c.origin.of) ELSE -1
                       ELSE IF c.origin.hook = "setup_environment" THEN Len(all) + 1
                       ELSE Len(all) + 2
            listed == SelectSeq(last.env, LAMBDA c :
                          /\ c.kind \in FormatKinds(last.format)
                          /\ EnvironmentLine(last.format, c) \in Range(last.block))
        IN  /\ last.calls =
                   [i \in 1..Len(all) |-> [hook |-> "setup_dependent_environment", of |-> all[i]]]
                   \o <<[hook |-> "setup_environment", of |-> last.spec]>>
            /\ \A i, j \in DOMAIN last.env :
                   i < j => /\ rank(last.env[i]) >= 0
                            /\ rank(last.env[i]) <= rank(last.env[j])
            /\ \A d \in Range(all) : \A c \in Range(SetupDependentEnvironment(d, last.spec)) :
                   c \in Range(last.env)
            /\ last.raised = "" =>
                   last.block = [i \in 1..Len(listed) |-> EnvironmentLine(last.format, listed[i])]

\* A module file was written whose block has edits of two dependencies, of
\* the package and of the configuration.
C10_Witness ==
    /\ last.op = "write"
    /\ ~Blacklisted(last.format, last.spec)
    /\ last.raised = ""
    /\ Len(DependenciesAll(deps, last.spec)) >= 2
    /\ \A h \in {"setup_dependent_environment", "setup_environment", "parse_config_options"} :
           \E c \in Range(last.env) :
               c.origin.hook = h /\ EnvironmentLine(last.format, c) \in Range(last.block)
    /\ \E c1, c2 \in Range(last.env) :
           /\ c1.origin.hook = "setup_dependent_environment"
           /\ c2.origin.hook = "setup_dependent_environment"
           /\ c1.origin.of # c2.origin.of
           /\ EnvironmentLine(last.format, c1) \in Range(last.block)
           /\ EnvironmentLine(last.format, c2) \in Range(last.block)

\* C11: the environment block of a written module file has no line for a
\* variable named in the environment_blacklist of the merged configuration,
\* whichever of prefix inspection, a dependency hook, the package hook or the
\* configuration requested the edit, and it lists the other edits in the
\* order they were requested in.
C11_BlacklistedVariablesHaveNoLine ==
    (last.op = "write" /\ ~Blacklisted(last.format, last.spec) /\ last.raised = "") =>
        LET filter    == Get(last.configuration, "filter", DictOf(EmptyDict)).dict
            blacklist == Range(Get(filter, "environment_blacklist", ListOf(<<>>)).list)
            other     == SelectSeq(last.env, LAMBDA c :
                             c.name \notin blacklist /\ c.kind \in FormatKinds(last.format))
        IN  /\ \A c \in Range(last.env) :
                   c.name \in blacklist => EnvironmentLine(last.format, c) \notin Range(last.block)
            /\ last.block = [i \in 1..Len(other) |-> EnvironmentLine(last.format, other[i])]
            /\ files[FileName(last.format, last.spec)].environment = last.block

\* A module file was written from edits of all four origins with a
\* blacklisted variable each, and from edits that are kept.
C11_Witness ==
    /\ last.op = "write"
    /\ ~Blacklisted(last.format, last.spec)
    /\ last.raised = ""
    /\ LET filter    == Get(last.configuration, "filter", DictOf(EmptyDict)).dict
           blacklist == Range(Get(filter, "environment_blacklist", ListOf(<<>>)).list)
       IN  /\ \A h \in {"inspect_path", "setup_dependent_environment", "setup_environment",
                        "parse_config_options"} :
                  \E c \in Range(last.env) : c.origin.hook = h /\ c.name \in blacklist
           /\ Len(last.block) >= 2

\* C15, as stated: a dotkit write() of a spec with dependencies whose merged
\* configuration requests prerequisites 'direct' or 'all' completes, writes
\* the module file, and the file has no prerequisite line.
C15_DotkitPrerequisitesPassThrough ==
    (/\ last.op = "write"
     /\ last.format = "dotkit"
     /\ ~Blacklisted(last.format, last.spec)
     /\ Enabled("dotkit")
     /\ Get(last.configuration, "prerequisites", ScalarOf("none")).scalar \in {"direct", "all"}
     /\ Get(last.configuration, "autoload", ScalarOf("none")).scalar \in Requests
     /\ deps[last.spec] # {})
        => /\ last.raised = ""
           /\ FileName("dotkit", last.spec) \in DOMAIN files
           /\ files[FileName("dotkit", last.spec)].prerequisites = <<>>

-----------------------------------------------------------------------------
(* Rendering: process_environment_command of each generator on a list of   *)
(* environment modifications.                                              *)

MaxEdits == 2

\* The modifications a caller can request: UnsetEnv has no value.
Modifications ==
    {Command(kind, name, value, "caller", 0) :
        kind \in {"PrependPath", "AppendPath", "RemovePath", "SetEnv"},
        name \in {"PATH", "FOO"}, value \in {"/a/bin", "bar"}}
    \cup {Command("UnsetEnv", name, "", "caller", 0) : name \in {"PATH", "FOO"}}

ModificationLists == UNION {[1..k -> Modifications] : k \in 0..MaxEdits}

InitRender ==
    /\ deps = [n \in Pkgs |-> {}]
    /\ compiler = [n \in Pkgs |-> CHOOSE c \in Compilers : c.name = "gcc"]
    /\ CONFIGURATION = [enable |-> AllFormats]
    /\ lmodEnv = [t \in SessionTokens |-> Unset]
    /\ IdleDeps /\ IdleLmod
    /\ files = EmptyDict /\ dirs = {}
    /\ \E env \in ModificationLists :
           last = [op |-> "modifications", format |-> "", spec |-> 0, env |-> env,
                   block |-> <<>>, warnings |-> <<>>]

\* The lines and the warnings of process_environment_command(env) for a format.
Render(format) ==
    /\ last' = [last EXCEPT !.op = "render", !.format = format,
                            !.block = ProcessEnvironmentCommand(format, last.env),
                            !.warnings = EnvironmentWarnings(format, last.env)]
    /\ UNCHANGED <<deps, compiler, CONFIGURATION, depCall, gen, loaded, MODULEPATH,
                   lmodEnv, files, dirs>>

NextRender == \E format \in Formats : Render(format)

SpecRender == InitRender /\ [][NextRender]_vars

\* C12: a modification of a variant the format has no rendering entry for
\* (AppendPath, RemovePath, UnsetEnv under dotkit) does not end the
\* rendering: it gives no line and one diagnostic naming its type and origin,
\* and every other modification is rendered, in the original order.
C12_UnknownVariantIsSkipped ==
    last.op = "render" =>
        LET has(c)  == c.kind \in FormatKinds(last.format)
            known   == SelectSeq(last.env, has)
            unknown == SelectSeq(last.env, LAMBDA c : ~has(c))
        IN  /\ last.format = "dotkit" =>
                  \A c \in Range(last.env) :
                      has(c) <=> c.kind \notin {"AppendPath", "RemovePath", "UnsetEnv"}
            /\ last.block = [i \in 1..Len(known) |-> EnvironmentLine(last.format, known[i])]
            /\ last.warnings = [i \in 1..Len(unknown) |->
                                   [type |-> unknown[i].kind, origin |-> unknown[i].origin]]
            /\ Len(last.block) + Len(last.warnings) = Len(last.env)

\* Under dotkit a modification without an entry came first and the one after
\* it was rendered.
C12_Witness ==
    /\ last.op = "render"
    /\ last.format = "dotkit"
    /\ Len(last.env) = 2
    /\ last.env[1].kind \in {"AppendPath", "RemovePath", "UnsetEnv"}
    /\ Len(last.warnings) = 1
    /\ last.block = <<EnvironmentLine("dotkit", last.env[2])>>

\* The keyword of each variant in a Tcl module file.
TclKeyword(kind) ==
    IF kind = "PrependPath" THEN "prepend-path"
    ELSE IF kind = "AppendPath" THEN "append-path"
    ELSE IF kind = "RemovePath" THEN "remove-path"
    ELSE IF kind = "SetEnv" THEN "setenv"
    ELSE "unsetenv"

\* [prepend_path(PATH, /a/bin), set(FOO, bar)] and its two Tcl lines.
TclExample ==
    last.env = <<Command("PrependPath", "PATH", "/a/bin", "caller", 0),
                 Command("SetEnv", "FOO", "bar", "caller", 0)>>
        => last.block = <<"prepend-path PATH \"/a/bin\"\n", "setenv FOO \"bar\"\n">>

\* C13, as stated: under Tcl [prepend_path(PATH, /a/bin), set(FOO, bar)] gives
\* the lines  prepend-path PATH "/a/bin"  and  setenv FOO "bar"  in that
\* order, and every line is the keyword of the variant, the name and the
\* quoted value, in insertion order.
C13_TclKeywordNameQuotedValue ==
    (last.op = "render" /\ last.format = "tcl") =>
        /\ TclExample
        /\ last.block = [i \in 1..Len(last.env) |->
               TclKeyword(last.env[i].kind) \o " " \o last.env[i].name
               \o " \"" \o last.env[i].value \o "\"\n"]

\* C13, amended: the same, but the line of UnsetEnv, which has no value, is
\* the keyword and the name only.
C13_TclKeywordNameQuotedValueUnlessUnset ==
    (last.op = "render" /\ last.format = "tcl") =>
        /\ TclExample
        /\ last.block = [i \in 1..Len(last.env) |->
               TclKeyword(last.env[i].kind) \o " " \o last.env[i].name
               \o (IF last.env[i].kind = "UnsetEnv" THEN ""
                   ELSE " \"" \o last.env[i].value \o "\"")
               \o "\n"]

\* The example of C13 was rendered under Tcl.
C13_Witness ==
    /\ last.op = "render"
    /\ last.format = "tcl"
    /\ last.env = <<Command("PrependPath", "PATH", "/a/bin", "caller", 0),
                    Command("SetEnv", "FOO", "bar", "caller", 0)>>
    /\ Len(last.block) = 2

\* The Lua function of each variant.
LuaFunction(kind) ==
    IF kind = "PrependPath" THEN "prepend_path"
    ELSE IF kind = "AppendPath" THEN "append_path"
    ELSE IF kind = "RemovePath" THEN "remove_path"
    ELSE IF kind = "SetEnv" THEN "setenv"
    ELSE "unsetenv"

\* C14, as stated: under Lmod every variant is rendered as a call of its Lua
\* function: prepend_path, append_path, remove_path, setenv, unsetenv.
C14_LmodLinesCallLuaFunctions ==
    (last.op = "render" /\ last.format = "lmod") =>
        /\ Len(last.block) = Len(last.env)
        /\ \A i \in DOMAIN last.block :
               LET call == LuaFunction(last.env[i].kind) \o "(\""
               IN  /\ Len(last.block[i]) > Len(call)
                   /\ SubSeq(last.block[i], 1, Len(call)) = call

-----------------------------------------------------------------------------
(* update_dictionary_extending_lists as the in-place operation it is.  The *)
(* else branch stores the update's own object in the target, so a list or  *)
(* a dict stored that way is shared by the two dictionaries: `aliased` is  *)
(* the set of key paths at which target and update hold the same object.   *)

MaxMerges == 2

\* An update that takes the place of the list.
ExtendListReplacing(target, update) == update

\* An extension that leaves out the items the list has already.
ExtendListOnce(target, update) ==
    target \o SelectSeq(update, LAMBDA item : item \notin Range(target))

\* target[key].extend(update[key])
ExtendList(target, update) == target \o update

\* update_dictionary_extending_lists(d, d): target and update are one object.
RECURSIVE SelfMerge(_)
SelfMerge(d) ==
    [key \in DOMAIN d |->
        IF IsList(d[key]) THEN ListOf(ExtendList(d[key].list, d[key].list))
        ELSE IF IsDict(d[key]) THEN DictOf(SelfMerge(d[key].dict))
        ELSE d[key]]

\* update_dictionary_extending_lists(target, update): the two dictionaries
\* and the shared paths after the call.
RECURSIVE MergeInPlace(_, _, _)
MergeInPlace(target, update, aliased) ==
    LET step(key) ==
            LET sub  == {Tail(p) : p \in {q \in aliased : q # <<>> /\ Head(q) = key}}
                same == <<>> \in sub
            IN  IF key \in DOMAIN target /\ IsList(target[key])
                THEN LET extended == ListOf(ExtendList(target[key].list, update[key].list))
                     IN  [target |-> extended,
                          update |-> IF same THEN extended ELSE update[key],
                          aliased |-> IF same THEN {<<>>} ELSE {}]
                ELSE IF key \in DOMAIN target /\ IsDict(target[key])
                THEN IF same
                     THEN [target |-> DictOf(SelfMerge(target[key].dict)),
                           update |-> DictOf(SelfMerge(target[key].dict)),
                           aliased |-> {<<>>}]
                     ELSE LET r == MergeInPlace(target[key].dict, update[key].dict, sub)
                          IN  [target |-> DictOf(r.target), update |-> DictOf(r.update),
                               aliased |-> r.aliased]
                ELSE [target |-> update[key], update |-> update[key],
                      aliased |-> IF IsList(update[key]) \/ IsDict(update[key])
                                  THEN {<<>>} ELSE {}]
    IN  [target  |-> [key \in DOMAIN target \cup DOMAIN update |->
                         IF key \in DOMAIN update THEN step(key).target ELSE target[key]],
         update  |-> [key \in DOMAIN update |-> step(key).update],
         aliased |-> UNION {{<<key>> \o p : p \in step(key).aliased} : key \in DOMAIN update}]

\* Rule-sets of a module configuration: 'autoload' is a string, 'conflict' a
\* list, 'filter' a mapping with a list and a string in it.
RuleSetUniverse ==
    {a @@ c @@ f :
        a \in {EmptyDict, "autoload" :> ScalarOf("direct"), "autoload" :> ScalarOf("all")},
        c \in {EmptyDict, "conflict" :> ListOf(<<"pkg">>),
               "conflict" :> ListOf(<<"openmpi", "pkg">>)},
        f \in {EmptyDict,
               "filter" :> DictOf("environment_blacklist" :> ListOf(<<"PATH">>)),
               "filter" :> DictOf(("environment_blacklist" :> ListOf(<<"CPATH">>))
                                  @@ ("mode" :> ScalarOf("strict")))}}

InitMerge ==
    /\ deps = [n \in Pkgs |-> {}]
    /\ compiler = [n \in Pkgs |-> CHOOSE c \in Compilers : c.name = "gcc"]
    /\ CONFIGURATION = [enable |-> AllFormats]
    /\ IdleDeps /\ IdleLmod
    /\ files = EmptyDict /\ dirs = {}
    /\ \E target \in RuleSetUniverse, update \in RuleSetUniverse :
           last = [op |-> "rules", format |-> "", spec |-> 0, aliased |-> {},
                   targets |-> <<target>>, updates |-> <<update>>]

\* One more update_dictionary_extending_lists(target, update) on the same two
\* objects.
Merge ==
    /\ Len(last.targets) <= MaxMerges
    /\ LET n == Len(last.targets)
           r == MergeInPlace(last.targets[n], last.updates[n], last.aliased)
       IN  last' = [last EXCEPT !.op = "merge", !.aliased = r.aliased,
                                !.targets = Append(@, r.target),
                                !.updates = Append(@, r.update)]
    /\ UNCHANGED <<deps, compiler, CONFIGURATION, depCall, gen, loaded, MODULEPATH,
                   lmodEnv, files, dirs>>

NextMerge == Merge

SpecMerge == InitMerge /\ [][NextMerge]_vars

\* `after` is `before` with `rules` merged in: lists concatenated, scalars
\* overwritten, mappings merged the same way, other keys as they were.
RECURSIVE MergedInto(_, _, _)
MergedInto(before, rules, after) ==
    /\ DOMAIN after = DOMAIN before \cup DOMAIN rules
    /\ \A key \in DOMAIN after :
           IF key \notin DOMAIN rules THEN after[key] = before[key]
           ELSE IF key \in DOMAIN before /\ IsList(before[key])
           THEN after[key] = ListOf(before[key].list \o rules[key].list)
           ELSE IF key \in DOMAIN before /\ IsDict(before[key])
           THEN IsDict(after[key])
                /\ MergedInto(before[key].dict, rules[key].dict, after[key].dict)
           ELSE after[key] = rules[key]

\* C16: merging a rule-set into the accumulated action set concatenates the
\* list-valued keys (accumulated items first, then the new ones), overwrites
\* the scalar keys with the new value, merges nested mappings by the same
\* rules, and leaves the keys only the accumulated set has as they were.
C16_MergeExtendsListsOverwritesScalars ==
    last.op = "merge" =>
        \A i \in 1..(Len(last.targets) - 1) :
            MergedInto(last.targets[i], last.updates[i], last.targets[i + 1])

\* A merge met a list to extend, a scalar to overwrite, a mapping to merge
\* and a key only the accumulated set has.
C16_Witness ==
    /\ last.op = "merge"
    /\ Len(last.targets) = 2
    /\ LET before == last.targets[1]
           rules  == last.updates[1]
       IN  /\ {"conflict", "filter"} \subseteq DOMAIN before \cap DOMAIN rules
           /\ "autoload" \in DOMAIN before \ DOMAIN rules
           /\ "mode" \in DOMAIN rules["filter"].dict \ DOMAIN before["filter"].dict
           /\ last.targets[2]["conflict"].list # rules["conflict"].list
           /\ last.targets[2]["conflict"].list # before["conflict"].list

\* `twice` is `once` after one more merge of `rules`, the rule-set both merges
\* were given, `before` the accumulated set they started from: its lists have
\* the items of `rules` one more time, its scalars are those of `once`.
RECURSIVE MergedAgain(_, _, _, _)
MergedAgain(before, once, rules, twice) ==
    /\ DOMAIN twice = DOMAIN once
    /\ \A key \in DOMAIN rules :
           IF IsList(rules[key])
           THEN /\ twice[key] = ListOf(once[key].list \o rules[key].list)
                /\ key \notin DOMAIN before =>
                       /\ twice[key] = ListOf(rules[key].list \o rules[key].list)
                       /\ Len(twice[key].list) = 2 * Len(rules[key].list)
           ELSE IF IsDict(rules[key])
           THEN MergedAgain(Get(before, key, DictOf(EmptyDict)).dict,
                            once[key].dict, rules[key].dict, twice[key].dict)
           ELSE twice[key] = once[key] /\ twice[key] = rules[key]

\* C17: merging the same rule-set twice gives every list-valued key of the
\* rule-set its items twice (the length doubled when the accumulated set had
\* none), and leaves the scalar keys as the first merge set them.
C17_SecondMergeDuplicatesLists ==
    (last.op = "merge" /\ Len(last.targets) >= 3) =>
        MergedAgain(last.targets[1], last.targets[2], last.updates[1], last.targets[3])

\* The same rule-set, with a list and a scalar the accumulated set did not
\* have, was merged twice.
C17_Witness ==
    /\ last.op = "merge"
    /\ Len(last.targets) = 3
    /\ {"conflict", "autoload"} \subseteq DOMAIN last.updates[1] \ DOMAIN last.targets[1]
    /\ Len(last.targets[3]["conflict"].list) = 2 * Len(last.updates[1]["conflict"].list)
    /\ last.targets[3]["autoload"] = last.updates[1]["autoload"]

-----------------------------------------------------------------------------
(* The merge loop of parse_config_options, one item of the configuration   *)
(* at a time.                                                              *)

MaxRules == 3

\* Keys of a module configuration: patterns, some with the override marker.
PatternKeys == {"pkg", "pkg:", "openmpi:", "%gcc@8.0", "%gcc@8.0:", "%intel@16.0:"}

\* A rule-set that tells where it came from.
RuleSetOf(key) ==
    ("conflict" :> ListOf(<<key>>))
    @@ (IF EndsWithColon(key) THEN "prerequisites" :> ScalarOf("direct")
        ELSE "autoload" :> ScalarOf("direct"))

ParseConfigurations ==
    {[key \in keys \cup all |-> RuleSetOf(key)] :
        keys \in {k \in SUBSET PatternKeys : Cardinality(k) <= MaxRules},
        all \in {{}, {"all"}}}

InitParse ==
    /\ deps = [n \in Pkgs |-> {}]
    /\ compiler \in {[n \in Pkgs |-> c] : c \in Compilers}
    /\ \E rules \in ParseConfigurations :
           CONFIGURATION = [enable |-> AllFormats, tcl |-> rules]
    /\ IdleDeps /\ IdleLmod /\ IdleTree

\* Lines 176-182: module_file_actions is the 'all' rule-set, and items() gives
\* the other keys in some order.
BeginParse(n, items) ==
    /\ last.op = ""
    /\ last' = [op |-> "parse", format |-> "tcl", spec |-> n, items |-> items, pos |-> 0,
                before  |-> Get(CONFIGURATION.tcl, "all", EmptyDict),
                actions |-> Get(CONFIGURATION.tcl, "all", EmptyDict)]
    /\ UNCHANGED <<deps, compiler, CONFIGURATION, depCall, gen, loaded, MODULEPATH,
                   lmodEnv, files, dirs>>

\* Lines 182-190: one turn of the loop.
MergeItem ==
    /\ last.op = "parse"
    /\ last.pos < Len(last.items)
    /\ last' = [last EXCEPT !.pos = @ + 1, !.before = last.actions,
                            !.actions = MergeRules(CONFIGURATION.tcl,
                                                   <<last.items[last.pos + 1]>>,
                                                   last.spec, last.actions)]
    /\ UNCHANGED <<deps, compiler, CONFIGURATION, depCall, gen, loaded, MODULEPATH,
                   lmodEnv, files, dirs>>

NextParse ==
    \/ \E n \in Targets, items \in Orderings(DOMAIN CONFIGURATION.tcl \ {"all"}) :
           BeginParse(n, items)
    \/ MergeItem

SpecParse == InitParse /\ [][NextParse]_vars

\* C18: after the turn of a pattern written with the marker ':' that the spec
\* satisfies, the action set is exactly the rule-set of that pattern, whatever
\* 'all' and the earlier patterns had merged; the turn of a pattern the spec
\* does not satisfy, marked or not, leaves the action set as it was.
C18_OverrideDiscardsEarlierRules ==
    (last.op = "parse" /\ last.pos >= 1) =>
        LET key == last.items[last.pos]
        IN  \A pattern \in Patterns :
                /\ (key = pattern \o ":" /\ Satisfies(last.spec, pattern)) =>
                       last.actions = CONFIGURATION.tcl[key]
                /\ (key \in {pattern, pattern \o ":"} /\ ~Satisfies(last.spec, pattern)) =>
                       last.actions = last.before

\* A marked pattern the spec satisfies came after 'all', after a pattern that
\* had been merged and after a marked pattern the spec does not satisfy.
C18_Witness ==
    /\ last.op = "parse"
    /\ last.pos = 3
    /\ "all" \in DOMAIN CONFIGURATION.tcl
    /\ last.spec = Pkg
    /\ last.items = <<"pkg", "openmpi:", "%gcc@8.0:">>
    /\ Len(last.before["conflict"].list) = 2
    /\ "autoload" \in DOMAIN last.before
    /\ last.actions = CONFIGURATION.tcl["%gcc@8.0:"]

-----------------------------------------------------------------------------
(* use_name of the three generators, for installations of one package that *)
(* differ in what they were built on, and so in their hash only.           *)

MaxCalls == 3

\* "{name}/{version}-{compiler.name}"
SlashNamingFormat == << <<"{name}">>, <<"{version}", "-", "{compiler.name}">> >>

NameConfigurations ==
    {[enable |-> AllFormats],
     Configure(AllFormats, EmptyDict),
     Configure(AllFormats, [naming_scheme |-> SlashNamingFormat])}

\* The installations of the main specification, and pkg on a JPEG library that
\* was built without MPI.
NameDags ==
    MainDags \cup {[n \in Pkgs |-> IF n = Pkg THEN {Jpeg, Openmpi} ELSE {}]}

InitNames ==
    /\ deps \in NameDags
    /\ compiler \in {[n \in Pkgs |-> c] : c \in Compilers}
    /\ CONFIGURATION \in NameConfigurations
    /\ IdleDeps /\ IdleLmod
    /\ files = EmptyDict /\ dirs = {}
    /\ last = [op |-> "", format |-> "", spec |-> 0, names |-> {}]

\* A read of the use_name property of the generator of (format, n).
ReadUseName(format, n) ==
    /\ Cardinality(last.names) < MaxCalls
    /\ last' = [op |-> "use_name", format |-> format, spec |-> n,
                names |-> last.names \cup
                    {[format |-> format, spec |-> n, hash |-> DagHash(n),
                      use_name |-> JoinPath(UseName(format, n)),
                      file_name |-> FileName(format, n)]}]
    /\ UNCHANGED <<deps, compiler, CONFIGURATION, depCall, gen, loaded, MODULEPATH,
                   lmodEnv, files, dirs>>

\* The generators are made for another installation of the same packages.
Reinstall ==
    /\ \E other \in NameDags \ {deps} : deps' = other
    /\ last' = [last EXCEPT !.op = "install"]
    /\ UNCHANGED <<compiler, CONFIGURATION, depCall, gen, loaded, MODULEPATH,
                   lmodEnv, files, dirs>>

NextNames ==
    \/ \E format \in Formats, n \in Targets : ReadUseName(format, n)
    \/ Reinstall

SpecNames == InitNames /\ [][NextNames]_vars

\* The hash suffix of a use_name: the whole hash, six characters of it for lmod.
HashSuffix(call) ==
    "-" \o (IF call.format = "lmod" THEN SubSeq(call.hash, 1, 6) ELSE call.hash)

\* The use_name of a call without its last Len(suffix) characters.
NamePrefix(call) == SubSeq(call.use_name, 1, Len(call.use_name) - Len(HashSuffix(call)))

EndsWithHashSuffix(call) ==
    /\ Len(call.use_name) > Len(HashSuffix(call))
    /\ call.use_name = NamePrefix(call) \o HashSuffix(call)

\* C19: use_name is deterministic: the reads for one spec, format and naming
\* scheme give one value, and the use_names of two specs that differ in their
\* hash only are equal up to the hash suffix at their end.
C19_UseNameEqualUpToHashSuffix ==
    \A a, b \in last.names :
        (a.format = b.format /\ a.spec = b.spec) =>
            /\ a.hash = b.hash => a.use_name = b.use_name
            /\ EndsWithHashSuffix(a) /\ EndsWithHashSuffix(b)
            /\ NamePrefix(a) = NamePrefix(b)

\* The use_name was read for two installations of pkg with different hashes,
\* under each format.
C19_Witness ==
    \E a, b \in last.names :
        /\ a.format = b.format /\ a.spec = Pkg /\ b.spec = Pkg
        /\ a.hash # b.hash
        /\ SubSeq(a.hash, 1, 6) # SubSeq(b.hash, 1, 6)
        /\ a.use_name # b.use_name

\* C20, as stated: under each of dotkit, tcl and lmod, use_name is the naming
\* scheme configured for the format, or without one the default
\* '{name}-{version}-{compiler.name}-{compiler.version}', filled with the name,
\* version and compiler of the spec, and then the hash suffix.
C20_UseNameIsFilledNamingScheme ==
    \A call \in last.names :
        LET configuration == Get(CONFIGURATION, call.format, EmptyDict)
            scheme == IF "naming_scheme" \in DOMAIN configuration
                      THEN configuration.naming_scheme
                      ELSE << <<"{name}", "-", "{version}", "-",
                                "{compiler.name}", "-", "{compiler.version}">> >>
            filled == [i \in 1..Len(scheme) |-> FormatComponent(scheme[i], call.spec)]
        IN  call.use_name = JoinPath(filled) \o HashSuffix(call)

\* C27, as stated: within one format, two specs with different hashes never
\* have the same module file path, under the flat formats (the whole hash in
\* the name) and under lmod (six characters of it).
C27_DifferentHashesDifferentFiles ==
    \A a, b \in last.names :
        (a.format = b.format /\ a.hash # b.hash) => a.file_name # b.file_name

\* C30: an Lmod header has one family directive for each token of provides,
\* and a MODULEPATH block exactly when provides is not empty; the header of a
\* module that provides nothing has no family directive and no MODULEPATH
\* block.
C30_FamilyAndModulepathIffProvides ==
    gen # NoModule =>
        /\ gen.header.families = DOMAIN gen.provides
        /\ Len(gen.header.modulepath) = (IF DOMAIN gen.provides # {} THEN 1 ELSE 0)
        /\ DOMAIN gen.provides # {} =>
               gen.header.modulepath[1].prepend[1] = "lmod"
        /\ DOMAIN gen.provides = {} =>
               gen.header = [families |-> {}, modulepath |-> <<>>]

\* A generator of a package that provides two tokens of the hierarchy.
C30_Witness ==
    /\ gen # NoModule
    /\ Cardinality(DOMAIN gen.provides) >= 2
    /\ gen.header.families = DOMAIN gen.provides
    /\ Len(gen.header.modulepath) = 1

-----------------------------------------------------------------------------
(* write() and remove() on the module tree: what a call leaves behind.     *)

\* The directories on the path to a file.
Ancestors(path) == {SubSeq(path, 1, k) : k \in 1..(Len(path) - 1)}

\* C21: remove() never raises, whatever the module tree holds, and a second
\* remove() right after the first changes no file and no directory.
C21_RemoveIsIdempotentAndSilent ==
    [][last'.op = "remove" =>
          /\ last'.raised = ""
          /\ (last.op = "remove" /\ last.format = last'.format /\ last.spec = last'.spec)
                 => (files' = files /\ dirs' = dirs)]_vars

\* The same remove() was called twice in a row, on a tree with module files.
C21_Witness ==
    /\ last.op = "remove"
    /\ last.again
    /\ ~last.existed
    /\ DOMAIN files # {}

\* C22: after remove() of a module file that existed the file is gone, the
\* directories deleted are directories on its path that the removal left
\* empty, and a directory on its path is kept exactly when it still has an
\* entry: the walk upward stops at the first directory that is not empty.
C22_RemovePrunesEmptyAncestors ==
    [][(last'.op = "remove" /\ last'.existed) =>
          LET mod_file == FileName(last'.format, last'.spec)
              empty(d) == /\ ~ \E g \in DOMAIN files' : Dirname(g) = d
                          /\ ~ \E e \in dirs' : Dirname(e) = d
          IN  /\ mod_file \in DOMAIN files
              /\ mod_file \notin DOMAIN files'
              /\ Ancestors(mod_file) \subseteq dirs
              /\ dirs' \subseteq dirs
              /\ dirs \ dirs' \subseteq Ancestors(mod_file)
              /\ \A d \in Ancestors(mod_file) : d \in dirs' <=> ~empty(d)
              /\ \A d \in dirs \ dirs' : empty(d)]_vars

\* A remove() deleted the directory of the module file and stopped below the
\* top of the tree, at a directory that holds another module.
C22_Witness ==
    /\ last.op = "remove"
    /\ last.existed
    /\ LET mod_file == FileName(last.format, last.spec)
       IN  /\ Dirname(mod_file) \notin dirs
           /\ \E d \in Ancestors(mod_file) : d \in dirs
           /\ \E g \in DOMAIN files : g[1] = mod_file[1]

\* C24, as stated: a Tcl write() ends with SystemExit exactly when a conflict
\* declaration with a field in it does not align with the naming scheme
\* component for component: a component that differs, or another number of
\* components.
C24_ConflictMustAlignWithNaming ==
    (/\ last.op = "write" /\ last.format = "tcl"
     /\ ~Blacklisted(last.format, last.spec)
     /\ last.raised \in {"", "SystemExit"}) =>
        LET naming    == NamingScheme("tcl")
            conflicts == Get(last.configuration, "conflict", ListOf(<<>>)).list
            fields(item)  == \E i \in DOMAIN item : \E j \in DOMAIN item[i] :
                                 SubSeq(item[i][j], 1, 1) = "{"
            aligned(item) == /\ Len(item) = Len(naming)
                             /\ \A i \in DOMAIN item : item[i] = naming[i]
        IN  last.raised = "SystemExit" <=>
                \E k \in DOMAIN conflicts : fields(conflicts[k]) /\ ~aligned(conflicts[k])

OtherFilesUntouched ==
    LET file_name == FileName(last'.format, last'.spec)
    IN  /\ DOMAIN files \ {file_name} = DOMAIN files' \ {file_name}
        /\ \A g \in DOMAIN files \ {file_name} : files'[g] = files[g]
        /\ \A g \in DOMAIN files' : Ancestors(g) \subseteq dirs'

\* C26, as stated: the module file of a package that is not blacklisted exists
\* after a write() of it, with the directories on its path, and does not
\* exist after a remove() of it; a call about another package leaves the file
\* as it was.
C26_FileExistsIffLastWasWrite ==
    [][/\ (last'.op = "write" /\ ~Blacklisted(last'.format, last'.spec)) =>
              FileName(last'.format, last'.spec) \in DOMAIN files'
       /\ last'.op = "remove" => FileName(last'.format, last'.spec) \notin DOMAIN files'
       /\ OtherFilesUntouched]_vars

\* C26, amended: the same for a write() that returns; a write() that raises
\* leaves the module file of its package as it was.
C26_FileExistsIffLastWasCompletedWrite ==
    [][/\ (last'.op = "write" /\ ~Blacklisted(last'.format, last'.spec)) =>
              LET file_name == FileName(last'.format, last'.spec)
              IN  IF last'.raised = ""
                  THEN file_name \in DOMAIN files'
                  ELSE /\ file_name \in DOMAIN files' <=> file_name \in DOMAIN files
                       /\ file_name \in DOMAIN files => files'[file_name] = files[file_name]
       /\ last'.op = "remove" => FileName(last'.format, last'.spec) \notin DOMAIN files'
       /\ OtherFilesUntouched]_vars

\* A module file was removed from a directory where the module file of
\* another package stays.
C26_Witness ==
    /\ last.op = "remove"
    /\ last.existed
    /\ ~Blacklisted(last.format, last.spec)
    /\ \E n \in Targets \ {last.spec} :
           /\ FileName(last.format, n) \in DOMAIN files
           /\ Dirname(FileName(last.format, n)) = Dirname(FileName(last.format, last.spec))

\* C28: the autoload block of a written module file has one directive for each
\* dependency of the resolved autoload list that is not blacklisted for the
\* format, in the order of the list, naming the use_name that the generator
\* of the same format gives the dependency; the prerequisite block likewise
\* for the resolved prerequisites; no directive names a blacklisted
\* dependency.
C28_DirectivesOfNonBlacklistedDependencies ==
    (last.op = "write" /\ ~Blacklisted(last.format, last.spec) /\ last.raised = "") =>
        LET content  == files[FileName(last.format, last.spec)]
            kept(ds) == SelectSeq(ds, LAMBDA d : ~Blacklisted(last.format, d))
            name(d)  == JoinPath(UseName(last.format, d))
            loads    == kept(last.autoload)
            prereqs  == kept(last.prerequisites)
        IN  /\ content.autoload =
                   [i \in 1..Len(loads) |-> AutoloadFormat(last.format, name(loads[i]))]
            /\ content.prerequisites =
                   [i \in 1..Len(prereqs) |-> PrerequisiteFormat(last.format, name(prereqs[i]))]
            /\ \A d \in Range(last.autoload) :
                   Blacklisted(last.format, d) =>
                       AutoloadFormat(last.format, name(d)) \notin Range(content.autoload)
            /\ \A d \in Range(last.prerequisites) :
                   Blacklisted(last.format, d) =>
                       PrerequisiteFormat(last.format, name(d)) \notin Range(content.prerequisites)

\* A module file was written whose resolved autoload list has a blacklisted
\* dependency and one that is not.
C28_Witness ==
    /\ last.op = "write"
    /\ last.raised = ""
    /\ ~Blacklisted(last.format, last.spec)
    /\ \E d \in Range(last.autoload) : Blacklisted(last.format, d)
    /\ \E d \in Range(last.autoload) : ~Blacklisted(last.format, d)
    /\ Len(files[FileName(last.format, last.spec)].autoload) = 1

\* C29: the content of a written module file is its header, then the autoload
\* block, the prerequisite block, the filtered environment block and the
\* content of the format, each the one of this write(); nothing of an earlier
\* content of the file is left.
C29_ContentIsHeaderAutoloadPrerequisitesEnvironmentExtra ==
    (last.op = "write" /\ ~Blacklisted(last.format, last.spec) /\ last.raised = "") =>
        LET content == files[FileName(last.format, last.spec)]
            header  == Header(last.format, last.spec)
        IN  /\ DOMAIN content =
                   {"header", "autoload", "prerequisites", "environment", "extra", "text"}
            /\ content.header = header
            /\ content.autoload =
                   AutoloadLines(last.format, FilterBlacklisted(last.autoload, last.format))
            /\ content.prerequisites =
                   PrerequisiteLines(last.format,
                                     FilterBlacklisted(last.prerequisites, last.format))
            /\ content.environment = last.block
            /\ content.extra =
                   ModuleSpecificContent(last.format, last.spec, last.configuration).lines
            /\ content.text =
                   (IF last.format = "lmod" THEN <<header>> ELSE header.lines)
                   \o content.autoload \o content.prerequisites
                   \o content.environment \o content.extra

\* A module file with an autoload block and an environment block was written
\* over the one that was there.
C29_Witness ==
    /\ last.op = "write"
    /\ last.raised = ""
    /\ ~Blacklisted(last.format, last.spec)
    /\ last.existed
    /\ files[FileName(last.format, last.spec)].autoload # <<>>
    /\ files[FileName(last.format, last.spec)].environment # <<>>

-----------------------------------------------------------------------------
(* Generation run again after modules.yaml was edited: the module tree of   *)
(* a run under valid rules meets a run under rules with an error.           *)

\* The rules of the first run, without an error.
FirstRunConfigurations ==
    {Configure(AllFormats, rules) : rules \in {PlainRules, ConflictRules}}

\* The rules modules.yaml is edited to: a request mode that is none of
\* 'none', 'direct', 'all', and a conflict declaration that differs from the
\* naming scheme.
RerunConfigurations ==
    {Configure(AllFormats, rules) : rules \in {OverrideRules, MismatchRules}}

\* The exceptions of a configuration error: the error of dependencies()
\* (lines 132-134) and the SystemExit of the conflict check (line 520).
ConfigurationErrors == {"Error", "SystemExit"}

InitRerun ==
    /\ deps \in MainDags
    /\ compiler \in {[n \in Pkgs |-> c] : c \in Compilers}
    /\ CONFIGURATION \in FirstRunConfigurations
    /\ lmodEnv = [t \in SessionTokens |-> Unset]
    /\ IdleDeps /\ IdleLmod /\ IdleTree

\* A new process reads the edited modules.yaml (line 66).
Reconfigure ==
    /\ CONFIGURATION \in FirstRunConfigurations
    /\ CONFIGURATION' \in RerunConfigurations
    /\ UNCHANGED <<deps, compiler, depCall, gen, loaded, MODULEPATH, lmodEnv, files, dirs,
                   last>>

\* The formats of the run: the two with a flat module tree.
RerunFormats == {"dotkit", "tcl"}

NextRerun ==
    \/ \E format \in RerunFormats, n \in Targets : Write(format, n)
    \/ Reconfigure

SpecRerun == InitRerun /\ [][NextRerun]_vars

\* C23: a write() that ends in a configuration error (an invalid request
\* mode, a conflict declaration that differs from the naming scheme) leaves
\* every file of the tree as it was: the module file is absent if it was
\* absent, and holds its previous content if it existed.
C23_ConfigurationErrorLeavesFileAsItWas ==
    [][(last'.op = "write" /\ last'.raised \in ConfigurationErrors) =>
           LET file_name == FileName(last'.format, last'.spec)
           IN  /\ files' = files
               /\ file_name \in DOMAIN files' <=> file_name \in DOMAIN files
               /\ file_name \in DOMAIN files =>
                      /\ files'[file_name] = files[file_name]
                      /\ files'[file_name] # EmptyDict]_vars

\* A write() raised SystemExit on the conflict declaration while the module
\* file of an earlier run was in the tree.
C23_Witness ==
    /\ last.op = "write"
    /\ last.raised = "SystemExit"
    /\ last.existed
    /\ FileName(last.format, last.spec) \in DOMAIN files
    /\ \E format \in RerunFormats, n \in Targets :
           /\ FileName(format, n) \notin DOMAIN files
           /\ Dirname(FileName(format, n)) \in dirs

=============================================================================
